---- MODULE Spec2Model ----
(***************************************************************************)
(* A model of the Raman integration pipeline (math_utils.py and the parts  *)
(* of gui.py that drive it).                                               *)
(*                                                                         *)
(* Floating point numbers are modelled as exact rationals extended with   *)
(* NaN, +inf, -inf and a signed zero, following IEEE-754 for the special   *)
(* cases (x/0, 0/0, inf-inf, ...).  Rounding is modelled where a property  *)
(* depends on it: the quotients and products of the ratio columns are      *)
(* computed in binary64.                                                   *)
(***************************************************************************)
EXTENDS Integers, Sequences, FiniteSets, TLC

VARIABLES
    \* compute_areas_and_figures, the body of its loop over files
    x,            \* wavenumber axis of the file being processed (spectra[0]['wavenumber'])
    Y,            \* one intensity row per pixel (np.stack of the spectra)
    ranges,       \* the argument ranges of the call
    peaks,        \* the argument peaks of the call (<<>> for None)
    file_areas,   \* ordered dict: range -> list of areas, one per pixel
    file_peaks,   \* ordered dict: peak centre -> list of heights, one per pixel
    ipc,          \* "idle" | "loaded" | "computed"
    \* pairwise_ratios, evaluate_formulas and step 3 of _export_results
    wide,         \* the wide table: ordered dict, column name -> column of values
    tcall,        \* the call made on the table: [op, cols, exprs, math]
    out,          \* the DataFrame the call returned
    ratio_df,     \* the formula columns of the export's Ratios table
    math_df,      \* the formula columns of the export's Spectral Math table
    \* read_spectra and its cache
    files,        \* the folder: file name -> lines of the file
    _spectra_cache, \* ordered dict: path -> (spectra, coords)
    returned,     \* what the first returning read_spectra call of each path returned
    ret,          \* the outcome of the latest read_spectra call
    fop,          \* the latest operation on the folder
    \* the figure cache, the calls of the computing functions and the shell
    _figure_cache,  \* ordered dict: file name -> Figure (its number)
    canvas,       \* what each Figure shows: Figure number -> [title, traces, ranges]
    call,         \* the latest call of a computing function: [op, path, ranges, raised, val]
    log,          \* the latest call or handler: its listdir and read_spectra calls and
                  \* the files whose results it stored, in their order
    held,         \* what the callers hold: path -> the Figure the latest call for it returned
    ncalls,       \* the number of handlers run and of calls made
    results,      \* self.results: ordered dict, file name -> file_areas
    figs,         \* self.figs: ordered dict, file name -> Figure
    coordinates,  \* self.coordinates: ordered dict, file name -> coords
    range_labels, \* self.range_labels
    ranges_entry, \* the text of the ranges entry, as the handler read it
    selection,    \* [file_paths, folder, recursive]: what the handler found selected
    shown,        \* the message of the error box the latest handler showed ("" for none)
    raised        \* the exception that escaped the latest handler ("" for none)

intVars == <<x, Y, ranges, peaks, file_areas, file_peaks, ipc>>

tableVars == <<wide, tcall, out, ratio_df, math_df>>

shellVars == <<_figure_cache, canvas, call, log, held, ncalls,
               results, figs, coordinates, range_labels, ranges_entry, selection,
               shown, raised>>

fileVars == <<files, _spectra_cache, returned, ret, fop, shellVars>>

vars == <<x, Y, ranges, peaks, file_areas, file_peaks, ipc,
          wide, tcall, out, ratio_df, math_df,
          files, _spectra_cache, returned, ret, fop,
          _figure_cache, canvas, call, log, held, ncalls,
          results, figs, coordinates, range_labels, ranges_entry, selection,
          shown, raised>>

\* The parts of the state a specification does not use stay as they are here.
ComputeIdle ==
    /\ x = <<>> /\ Y = <<>> /\ ranges = <<>> /\ peaks = <<>>
    /\ file_areas = <<>> /\ file_peaks = <<>> /\ ipc = "idle"

NoCall == [op |-> "none", cols |-> <<>>, exprs |-> <<>>, math |-> <<>>]

TableIdle ==
    /\ wide = <<>> /\ tcall = NoCall /\ out = <<>>
    /\ ratio_df = <<>> /\ math_df = <<>>

NoRead == [path |-> "", raised |-> "", val |-> <<>>, opened |-> FALSE, again |-> FALSE]

NoSelection == [file_paths |-> <<>>, folder |-> "", recursive |-> FALSE]

NoCompute == [op |-> "none", path |-> "", ranges |-> <<>>, raised |-> "", val |-> <<>>]

ShellIdle ==
    /\ _figure_cache = <<>> /\ canvas = <<>> /\ call = NoCompute /\ log = <<>>
    /\ held = <<>> /\ ncalls = 0
    /\ results = <<>> /\ figs = <<>> /\ coordinates = <<>> /\ range_labels = <<>>
    /\ ranges_entry = <<>> /\ selection = NoSelection
    /\ shown = "" /\ raised = ""

FilesIdle ==
    /\ files = <<>> /\ _spectra_cache = <<>> /\ returned = <<>>
    /\ ret = NoRead /\ fop = "none"
    /\ ShellIdle

----------------------------------------------------------------------------
(* Bounds of the model.                                                    *)

MaxW == 3          \* wavenumbers of a file are drawn from 0..MaxW
MaxPts == 3        \* a file of the integration model has 1..MaxPts samples

Intensities == {0, 1, 2}

MaxPeakW == 6      \* wavenumbers of a file of the peak model are drawn from 0..MaxPeakW
MaxPeakPts == 7    \* a file of the peak model has 1..MaxPeakPts samples

PeakIntensities == {0, 1}

----------------------------------------------------------------------------
(* Floating point values.                                                  *)

Abs(i) == IF i < 0 THEN -i ELSE i

Sgn(i) == IF i < 0 THEN -1 ELSE 1

RECURSIVE Gcd(_, _)
Gcd(a, b) == IF b = 0 THEN a ELSE Gcd(b, a % b)

\* The finite value n/d (d # 0); a zero carries the sign z.
FinZ(n, d, z) ==
    LET g == Gcd(Abs(n), Abs(d))
        s == Sgn(d)
    IN  IF n = 0 THEN [k |-> "fin", n |-> 0, d |-> 1, z |-> z]
        ELSE [k |-> "fin", n |-> (s * n) \div g, d |-> Abs(d) \div g, z |-> 1]

Fin(n, d) == FinZ(n, d, 1)

F(i) == Fin(i, 1)

NaN == [k |-> "nan", n |-> 0, d |-> 1, z |-> 1]

Inf(s) == [k |-> "inf", n |-> s, d |-> 0, z |-> 1]

IsNaN(v) == v.k = "nan"

IsInf(v) == v.k = "inf"

IsFin(v) == v.k = "fin"

IsZero(v) == v.k = "fin" /\ v.n = 0

\* The sign bit of a value that is not NaN.
SignOf(v) == IF v.k = "fin" /\ v.n = 0 THEN v.z ELSE Sgn(v.n)

VNeg(a) ==
    CASE a.k = "nan" -> NaN
      [] a.k = "inf" -> Inf(-a.n)
      [] OTHER -> FinZ(-a.n, a.d, -a.z)

VAdd(a, b) ==
    CASE a.k = "nan" \/ b.k = "nan" -> NaN
      [] a.k = "inf" /\ b.k = "inf" -> IF a.n = b.n THEN a ELSE NaN
      [] a.k = "inf" -> a
      [] b.k = "inf" -> b
      [] OTHER ->
           FinZ(a.n * b.d + b.n * a.d, a.d * b.d,
                IF a.n = 0 /\ b.n = 0 /\ a.z = -1 /\ b.z = -1 THEN -1 ELSE 1)

VSub(a, b) == VAdd(a, VNeg(b))

VMul(a, b) ==
    CASE a.k = "nan" \/ b.k = "nan" -> NaN
      [] a.k = "inf" \/ b.k = "inf" ->
           IF IsZero(a) \/ IsZero(b) THEN NaN ELSE Inf(SignOf(a) * SignOf(b))
      [] OTHER -> FinZ(a.n * b.n, a.d * b.d, SignOf(a) * SignOf(b))

VDiv(a, b) ==
    CASE a.k = "nan" \/ b.k = "nan" -> NaN
      [] a.k = "inf" /\ b.k = "inf" -> NaN
      [] a.k = "inf" -> Inf(SignOf(a) * SignOf(b))
      [] b.k = "inf" -> FinZ(0, 1, SignOf(a) * SignOf(b))
      [] b.n = 0 -> IF a.n = 0 THEN NaN ELSE Inf(SignOf(a) * SignOf(b))
      [] OTHER -> FinZ(a.n * b.d, a.d * b.n, SignOf(a) * SignOf(b))

\* a < b on values; every comparison with NaN is false.
VLess(a, b) ==
    CASE a.k = "nan" \/ b.k = "nan" -> FALSE
      [] a.k = "inf" /\ b.k = "inf" -> a.n < b.n
      [] a.k = "inf" -> a.n < 0
      [] b.k = "inf" -> b.n > 0
      [] OTHER -> a.n * b.d < b.n * a.d

\* a >= 0.0 as Python evaluates it (False for NaN, True for -0.0).
VNonNeg(a) == a.k # "nan" /\ ~VLess(a, F(0))

\* np.maximum(a, b): NaN propagates.
VMaximum(a, b) ==
    CASE a.k = "nan" -> a
      [] b.k = "nan" -> b
      [] VLess(a, b) -> b
      [] OTHER -> a

----------------------------------------------------------------------------
(* Python containers.                                                      *)

\* An insertion-ordered dict is a sequence of entries [key, val], keys distinct.
DictKeys(d) == [i \in 1..Len(d) |-> d[i].key]

DictHas(d, key) == \E i \in 1..Len(d) : d[i].key = key

DictGet(d, key) == d[CHOOSE i \in 1..Len(d) : d[i].key = key].val

\* d[key] = val: an existing key keeps its position.
DictSet(d, key, val) ==
    IF DictHas(d, key)
    THEN [i \in 1..Len(d) |-> IF d[i].key = key THEN [key |-> key, val |-> val] ELSE d[i]]
    ELSE Append(d, [key |-> key, val |-> val])

\* The sequence s with every element evaluated (an explicit tuple).
Tup(s) == s \o <<>>

RECURSIVE SumV(_)
SumV(s) == IF s = <<>> THEN F(0) ELSE VAdd(s[1], SumV(Tail(s)))

\* Fancy indexing s[idx] with a sequence of (1-based) indices.
Take(s, idx) == Tup([j \in 1..Len(idx) |-> s[idx[j]]])

\* The keys of dict(zip(keys, ...)): duplicates collapse onto the first one.
RECURSIVE Dedup(_)
Dedup(s) ==
    IF s = <<>> THEN <<>>
    ELSE LET front == Dedup(SubSeq(s, 1, Len(s) - 1))
             last == s[Len(s)]
         IN  IF \E i \in 1..Len(front) : front[i] = last THEN front
             ELSE Append(front, last)

----------------------------------------------------------------------------
(* Range Integrator: compute_areas_and_figures, the loop over color_map.   *)

\* mask = (x >= xmin) & (x <= xmax), as the ascending list of selected indices.
RECURSIVE MaskFrom(_, _, _, _)
MaskFrom(xs, xmin, xmax, i) ==
    IF i > Len(xs) THEN <<>>
    ELSE (IF xmin <= xs[i] /\ xs[i] <= xmax THEN <<i>> ELSE <<>>)
         \o MaskFrom(xs, xmin, xmax, i + 1)

Mask(xs, xmin, xmax) == MaskFrom(xs, xmin, xmax, 1)

\* np.argsort(v): the indices of v in ascending order of value (ties by index).
ArgSort(v) ==
    LET before(k, j) == v[k] < v[j] \/ (v[k] = v[j] /\ k < j)
        rank(j) == Cardinality({k \in 1..Len(v) : before(k, j)}) + 1
    IN  Tup([r \in 1..Len(v) |-> CHOOSE j \in 1..Len(v) : rank(j) = r])

\* factor = (xr - xmin) / (xmax - xmin)
Factor(xr, xmin, xmax) ==
    Tup([i \in 1..Len(xr) |-> VDiv(F(xr[i] - xmin), F(xmax - xmin))])

\* The baseline with the slope's sign slipped: I0 + (I0 - I1) * factor.
BaselineSignSlip(I0, I1, factor) ==
    Tup([i \in 1..Len(factor) |-> VAdd(F(I0), VMul(F(I0 - I1), factor[i]))])

\* baseline = I0 + (I1 - I0) * factor, for one pixel row.
Baseline(I0, I1, factor) ==
    Tup([i \in 1..Len(factor) |-> VAdd(F(I0), VMul(F(I1 - I0), factor[i]))])

\* np.trapezoid(top, xr): sum(d * (y[1:] + y[:-1]) / 2.0) with d = diff(xr).
Trapezoid(top, xr) ==
    SumV([i \in 1..(Len(xr) - 1) |->
             VDiv(VMul(F(xr[i + 1] - xr[i]), VAdd(top[i + 1], top[i])), F(2))])

\* The clamp left out.
ClampOff(area) == area

\* areas = np.maximum(areas, 0.0)
Clamp(area) == VMaximum(area, F(0))

\* The value stored in file_areas[(xmin, xmax)]: one area per pixel.
RangeAreas(xs, Ys, xmin, xmax) ==
    LET mask == Mask(xs, xmin, xmax)
        xm == Take(xs, mask)
    IN  IF Len(xm) = 0 THEN Tup([p \in 1..Len(Ys) |-> F(0)])
        ELSE LET order == ArgSort(xm)
                 xr == Take(xm, order)
                 factor == Factor(xr, xmin, xmax)
                 area(p) ==
                     LET Yr == Take(Take(Ys[p], mask), order)
                         baseline == Baseline(Yr[1], Yr[Len(Yr)], factor)
                         top == Tup([i \in 1..Len(xr) |-> VSub(F(Yr[i]), baseline[i])])
                     IN  Clamp(Trapezoid(top, xr))
             IN  Tup([p \in 1..Len(Ys) |-> area(p)])

\* The loop with `break` in place of `continue`: it ends at the first range
\* that selects no sample.
RECURSIVE AreasOverBreak(_, _, _)
AreasOverBreak(xs, Ys, keys) ==
    IF keys = <<>> THEN <<>>
    ELSE LET front == SubSeq(keys, 1, Len(keys) - 1)
         IN  IF \E j \in 1..Len(front) : Mask(xs, front[j][1], front[j][2]) = <<>>
             THEN AreasOverBreak(xs, Ys, front)
             ELSE DictSet(AreasOverBreak(xs, Ys, front),
                          keys[Len(keys)],
                          RangeAreas(xs, Ys, keys[Len(keys)][1], keys[Len(keys)][2]))

\* file_areas after the loop over color_map = dict(zip(ranges, colors)).
RECURSIVE AreasOver(_, _, _)
AreasOver(xs, Ys, keys) ==
    IF keys = <<>> THEN <<>>
    ELSE DictSet(AreasOver(xs, Ys, SubSeq(keys, 1, Len(keys) - 1)),
                 keys[Len(keys)],
                 RangeAreas(xs, Ys, keys[Len(keys)][1], keys[Len(keys)][2]))

FileAreas(xs, Ys, rs) == AreasOver(xs, Ys, Dedup(rs))

----------------------------------------------------------------------------
(* Peak Extractor: compute_areas_and_figures, the loop over peak_map.      *)
(*                                                                         *)
(* A quantity of this part is v + big * (1/1e-9): the denominator          *)
(* max(xr[-1] - xr[0], 1e-9) is 1e-9 whenever the window does not ascend,  *)
(* and the quotient is then kept as a multiple of EpsInv = 1/1e-9 in the   *)
(* field big instead of being multiplied out.                              *)

win == 3

EpsInv == 1000000000

Sc(v, big) == [v |-> v, big |-> big]

\* a < b for scaled quantities (|v| stays far below EpsInv in this model).
ScLess(a, b) == a.big < b.big \/ (a.big = b.big /\ VLess(a.v, b.v))

Max2(a, b) == IF a < b THEN b ELSE a

Min2(a, b) == IF a < b THEN a ELSE b

\* The scan keeping the last index at the smallest distance.
RECURSIVE ArgMinLast(_, _, _, _)
ArgMinLast(xs, center, i, best) ==
    IF i > Len(xs) THEN best
    ELSE ArgMinLast(xs, center, i + 1,
                    IF Abs(xs[i] - center) <= Abs(xs[best] - center) THEN i ELSE best)

\* np.abs(x - center).argmin() scanned from index i on, best being the
\* first index at the smallest distance so far.
RECURSIVE ArgMinFrom(_, _, _, _)
ArgMinFrom(xs, center, i, best) ==
    IF i > Len(xs) THEN best
    ELSE ArgMinFrom(xs, center, i + 1,
                    IF Abs(xs[i] - center) < Abs(xs[best] - center) THEN i ELSE best)

\* idx = int(np.abs(x - center).argmin()), 1-based.
NearestIdx(xs, center) == ArgMinFrom(xs, center, 2, 1)

\* The left edge one sample short: max(0, idx - win + 1).
WinLeftShort(xs, idx) == Max2(1, idx - win + 1)

\* left = max(0, idx - win), 1-based.
WinLeft(xs, idx) == Max2(1, idx - win)

\* right = min(len(x) - 1, idx + win), 1-based.
WinRight(xs, idx) == Min2(Len(xs), idx + win)

\* factor = (xr - xr[0]) / max(xr[-1] - xr[0], 1e-9)
PeakFactor(xr) ==
    LET span == xr[Len(xr)] - xr[1]
    IN  Tup([i \in 1..Len(xr) |->
                IF span > 0 THEN Sc(VDiv(F(xr[i] - xr[1]), F(span)), 0)
                ELSE Sc(F(0), xr[i] - xr[1])])

\* baseline = b0 + (b1 - b0) * factor, for one pixel row.
PeakBaseline(b0, b1, factor) ==
    Tup([i \in 1..Len(factor) |->
            LET f == factor[i]
            IN  Sc(VAdd(F(b0), VMul(F(b1 - b0), f.v)), (b1 - b0) * f.big)])

\* diff = Yr - baseline
PeakDiff(Yr, baseline) ==
    Tup([i \in 1..Len(Yr) |->
            LET b == baseline[i]
            IN  Sc(VSub(F(Yr[i]), b.v), -b.big)])

\* diff.argmax() scanned from index i on, best being the first index holding
\* the largest value so far.
RECURSIVE ArgMaxFrom(_, _, _)
ArgMaxFrom(diff, i, best) ==
    IF i > Len(diff) THEN best
    ELSE ArgMaxFrom(diff, i + 1, IF ScLess(diff[best], diff[i]) THEN i ELSE best)

ArgMax(diff) == ArgMaxFrom(diff, 2, 1)

\* The value stored in file_peaks[center]: one height per pixel.
PeakHeights(xs, Ys, center) ==
    LET idx == NearestIdx(xs, center)
        left == WinLeft(xs, idx)
        right == WinRight(xs, idx)
        xr == SubSeq(xs, left, right)
        factor == PeakFactor(xr)
        height(p) ==
            LET Yr == SubSeq(Ys[p], left, right)
                diff == PeakDiff(Yr, PeakBaseline(Yr[1], Yr[Len(Yr)], factor))
            IN  diff[ArgMax(diff)]
    IN  Tup([p \in 1..Len(Ys) |-> height(p)])

\* file_peaks after the loop over peak_map = dict(zip(peaks, peak_colors)).
RECURSIVE PeaksOver(_, _, _)
PeaksOver(xs, Ys, keys) ==
    IF keys = <<>> THEN <<>>
    ELSE DictSet(PeaksOver(xs, Ys, SubSeq(keys, 1, Len(keys) - 1)),
                 keys[Len(keys)],
                 PeakHeights(xs, Ys, keys[Len(keys)]))

\* `if peaks:` guards the loop: None and [] leave file_peaks empty.
FilePeaks(xs, Ys, ps) == IF ps = <<>> THEN <<>> ELSE PeaksOver(xs, Ys, Dedup(ps))

----------------------------------------------------------------------------
(* Inputs of the integration and peak models.                              *)

RECURSIVE SetToAsc(_)
SetToAsc(S) ==
    IF S = {} THEN <<>>
    ELSE LET m == CHOOSE a \in S : \A b \in S : a <= b
         IN  <<m>> \o SetToAsc(S \ {m})

Reverse(s) == [i \in 1..Len(s) |-> s[Len(s) + 1 - i]]

\* The sequence s with its last element moved to the front.
Rotate(s) == <<s[Len(s)]>> \o SubSeq(s, 1, Len(s) - 1)

\* Wavenumber axes of the integration model: 1..MaxPts distinct wavenumbers
\* out of 0..MaxW, ascending, descending or neither (the reader keeps the
\* file's order, whatever it is).
Axes ==
    LET sets == {S \in SUBSET (0..MaxW) : Cardinality(S) \in 1..MaxPts}
    IN  {SetToAsc(S) : S \in sets} \cup {Reverse(SetToAsc(S)) : S \in sets}
        \cup {Rotate(SetToAsc(S)) : S \in sets}

\* Wavenumber axes of the peak model: 1..MaxPeakPts distinct wavenumbers out
\* of 0..MaxPeakW, ascending or descending.
PeakAxes ==
    LET sets == {S \in SUBSET (0..MaxPeakW) : Cardinality(S) \in 1..MaxPeakPts}
    IN  {SetToAsc(S) : S \in sets} \cup {Reverse(SetToAsc(S)) : S \in sets}

\* The intensity row mirrored about the middle of the intensity scale.
Mirror(row, top) == [i \in 1..Len(row) |-> top - row[i]]

\* A file holds one pixel, or two (a map) of which the second is the mirror
\* image of the first.
PixelsOf(n, levels, top) ==
    {<<r>> : r \in [1..n -> levels]} \cup {<<r, Mirror(r, top)>> : r \in [1..n -> levels]}

\* Ranges (xmin, xmax) with xmin < xmax.
Ranges == {r \in (0..MaxW) \X (0..MaxW) : r[1] < r[2]}

\* One range, or two that do not overlap, in ascending order.
RangeLists ==
    {<<r>> : r \in Ranges}
    \cup {<<pr[1], pr[2]>> : pr \in {q \in Ranges \X Ranges : q[1][2] <= q[2][1]}}

InitCompute ==
    /\ x \in Axes
    /\ Y \in PixelsOf(Len(x), Intensities, 2)
    /\ ranges = <<>>
    /\ peaks = <<>>
    /\ file_areas = <<>>
    /\ file_peaks = <<>>
    /\ ipc = "loaded"
    /\ TableIdle
    /\ FilesIdle

\* The body of the loop over files for one file: file_areas and file_peaks.
ProcessFile(rs, ps) ==
    /\ ipc = "loaded"
    /\ ranges' = rs
    /\ peaks' = ps
    /\ file_areas' = FileAreas(x, Y, rs)
    /\ file_peaks' = FilePeaks(x, Y, ps)
    /\ ipc' = "computed"
    /\ UNCHANGED <<x, Y>>
    /\ UNCHANGED <<tableVars, fileVars>>

\* Called with peaks=None.
ComputeAreas == \E rs \in RangeLists : ProcessFile(rs, <<>>)

NextCompute == ComputeAreas

SpecCompute == InitCompute /\ [][NextCompute]_vars

\* Peak targets: every wavenumber of the domain and one past either end.
PeakLists == {<<c>> : c \in (-1)..(MaxPeakW + 1)}

InitPeaks ==
    /\ x \in PeakAxes
    /\ Y \in PixelsOf(Len(x), PeakIntensities, 1)
    /\ ranges = <<>>
    /\ peaks = <<>>
    /\ file_areas = <<>>
    /\ file_peaks = <<>>
    /\ ipc = "loaded"
    /\ TableIdle
    /\ FilesIdle

\* Called with ranges=[].
ComputePeaks == \E ps \in PeakLists : ProcessFile(<<>>, ps)

NextPeaks == ComputePeaks

SpecPeaks == InitPeaks /\ [][NextPeaks]_vars

----------------------------------------------------------------------------
(* Properties of the Range Integrator.                                     *)

\* The wavenumbers of the file that a range r = (xmin, xmax) selects.
SelectedW(r) == {x[i] : i \in 1..Len(x)} \cap (r[1]..r[2])

\* The intensity of a pixel row at wavenumber w of the axis.
RowAt(row, w) == row[CHOOSE i \in 1..Len(x) : x[i] = w]

\* (xmax - xmin) * (intensity - baseline) at w, the baseline being taken
\* through the values at the lowest and highest selected wavenumbers.
TopTimesD(row, r, lo, hi, w) ==
    (RowAt(row, w) - RowAt(row, lo)) * (r[2] - r[1])
    - (RowAt(row, hi) - RowAt(row, lo)) * (w - r[1])

\* 2 * (xmax - xmin) * the trapezoidal integral over the wavenumbers S.
RECURSIVE TrapezoidSum(_, _, _, _, _)
TrapezoidSum(row, r, lo, hi, S) ==
    IF Cardinality(S) <= 1 THEN 0
    ELSE LET a == CHOOSE u \in S : \A v \in S : u <= v
             b == CHOOSE u \in S \ {a} : \A v \in S \ {a} : u <= v
         IN  (b - a) * (TopTimesD(row, r, lo, hi, a) + TopTimesD(row, r, lo, hi, b))
             + TrapezoidSum(row, r, lo, hi, S \ {a})

\* 2 * (xmax - xmin) * the baseline-subtracted integral of a pixel row over r.
TwiceDArea(row, r) ==
    LET S == SelectedW(r)
        lo == CHOOSE u \in S : \A v \in S : u <= v
        hi == CHOOSE u \in S : \A v \in S : v <= u
    IN  TrapezoidSum(row, r, lo, hi, S)

\* The selected samples of a pixel row lie on one straight line.
Collinear(row, r) ==
    \A a, b, c \in SelectedW(r) :
        (RowAt(row, b) - RowAt(row, a)) * (c - a)
            = (RowAt(row, c) - RowAt(row, a)) * (b - a)

\* C1: every area reported for a range with xmin < xmax is >= 0.0, for
\* every file, range and pixel.
AreasNonNegative ==
    \A i \in 1..Len(file_areas) :
        \A p \in 1..Len(file_areas[i].val) : VNonNeg(file_areas[i].val[p])

\* C1 witness: a pixel whose baseline-subtracted integral is negative is
\* reported with area 0.0.
NegativeIntegralClamped ==
    /\ ipc = "computed"
    /\ \E i \in 1..Len(file_areas) : \E p \in 1..Len(Y) :
          /\ TwiceDArea(Y[p], file_areas[i].key) < 0
          /\ file_areas[i].val[p] = F(0)

\* C2 as stated: a spectrum that is a straight line across the range has
\* area 0.0, wherever the sample points lie inside the range.
LinearAreaZero ==
    \A i \in 1..Len(file_areas) : \A p \in 1..Len(Y) :
        Collinear(Y[p], file_areas[i].key) => file_areas[i].val[p] = F(0)

\* C2 amended: a spectrum that is a straight line across the range has area
\* 0.0 when the range's bounds xmin and xmax are themselves sample points.
LinearAreaZeroAtSampledBounds ==
    \A i \in 1..Len(file_areas) : \A p \in 1..Len(Y) :
        LET r == file_areas[i].key
        IN  (Collinear(Y[p], r) /\ r[1] \in SelectedW(r) /\ r[2] \in SelectedW(r))
                => file_areas[i].val[p] = F(0)

\* C2 witness: a sloped straight line over three or more samples, the range
\* bounds among them, is reported with area 0.0.
SlopedLineIntegrated ==
    /\ ipc = "computed"
    /\ \E i \in 1..Len(file_areas) : \E p \in 1..Len(Y) :
          LET r == file_areas[i].key
          IN  /\ Collinear(Y[p], r)
              /\ r[1] \in SelectedW(r) /\ r[2] \in SelectedW(r)
              /\ Cardinality(SelectedW(r)) >= 3
              /\ RowAt(Y[p], r[1]) # RowAt(Y[p], r[2])
              /\ file_areas[i].val[p] = F(0)

\* C3: a range that selects no sample gets exactly one 0.0 per pixel, and
\* every other range of the call still gets its areas.
EmptyRangeGivesZeros ==
    ipc = "computed" =>
        \A i \in 1..Len(ranges) :
            LET r == ranges[i]
            IN  /\ DictHas(file_areas, r)
                /\ Len(DictGet(file_areas, r)) = Len(Y)
                /\ \A p \in 1..Len(Y) :
                      DictGet(file_areas, r)[p] =
                          IF SelectedW(r) = {} THEN F(0)
                          ELSE Fin(Max2(TwiceDArea(Y[p], r), 0), 2 * (r[2] - r[1]))

\* C3 witness: of two ranges of a two-pixel file the first selects no sample
\* and the second has a positive area.
EmptyThenPositive ==
    /\ ipc = "computed"
    /\ Len(ranges) = 2
    /\ Len(Y) = 2
    /\ SelectedW(ranges[1]) = {}
    /\ DictGet(file_areas, ranges[1]) = <<F(0), F(0)>>
    /\ \E p \in 1..2 : VLess(F(0), DictGet(file_areas, ranges[2])[p])

----------------------------------------------------------------------------
(* Properties of the Peak Extractor.                                       *)

\* The window of a target: first and last index (1-based) around the sample
\* nearest to the target.
WindowLo(c) == Max2(1, NearestIdx(x, c) - 3)

WindowHi(c) == Min2(Len(x), NearestIdx(x, c) + 3)

\* Intensity minus baseline at sample i of the window lo..hi, for a pixel
\* row: the baseline runs from the window's first sample with the slope
\* (b1 - b0) / max(x_last - x_first, 1e-9), which is the straight line
\* through the window's first and last samples when the window ascends.
AboveBaseline(row, lo, hi, i) ==
    IF x[hi] > x[lo]
    THEN Sc(Fin((row[i] - row[lo]) * (x[hi] - x[lo])
                    - (row[hi] - row[lo]) * (x[i] - x[lo]),
                x[hi] - x[lo]), 0)
    ELSE Sc(F(row[i] - row[lo]), -((row[hi] - row[lo]) * (x[i] - x[lo])))

\* A scaled quantity is >= 0.
ScNonNeg(h) == h.big > 0 \/ (h.big = 0 /\ VNonNeg(h.v))

WindowBelowBaseline(row, lo, hi) ==
    /\ x[hi] > x[lo]
    /\ hi - lo >= 2
    /\ \A i \in (lo + 1)..(hi - 1) : VLess(AboveBaseline(row, lo, hi, i).v, F(0))

NearestSampleSelected ==
    ipc = "computed" =>
        \A k \in 1..Len(peaks) :
            LET c == peaks[k]
                idx == NearestIdx(x, c)
            IN  /\ idx \in 1..Len(x)
                /\ \A j \in 1..Len(x) : Abs(x[idx] - c) <= Abs(x[j] - c)
                /\ \A j \in 1..(idx - 1) : Abs(x[j] - c) > Abs(x[idx] - c)
                /\ (\A j \in 1..Len(x) : c < x[j]) =>
                      (idx \in {1, Len(x)} /\ \A j \in 1..Len(x) : x[idx] <= x[j])
                /\ (\A j \in 1..Len(x) : c > x[j]) =>
                      (idx \in {1, Len(x)} /\ \A j \in 1..Len(x) : x[idx] >= x[j])
                /\ DictHas(file_peaks, c)
                /\ Len(DictGet(file_peaks, c)) = Len(Y)

\* C15 witness: a target midway between two samples; the one with the lower
\* index is selected.
TieGoesToLowerIndex ==
    /\ ipc = "computed"
    /\ \E k \in 1..Len(peaks) :
          LET c == peaks[k]
              idx == NearestIdx(x, c)
          IN  /\ \E j \in (idx + 1)..Len(x) : Abs(x[j] - c) = Abs(x[idx] - c)
              /\ DictHas(file_peaks, c)

----------------------------------------------------------------------------
(* Table Assembler: pairwise_ratios, evaluate_formulas and the formula      *)
(* tables of _export_results.  A DataFrame is an ordered dict from column   *)
(* name to column; a column is the sequence of its rows' values.            *)

NCols == 3         \* the wide table has NCols value columns
MaxTok == 3        \* the enumerated formulas have 1..MaxTok tokens

NumRows(df) == IF df = <<>> THEN 0 ELSE Len(df[1].val)

\* The cell of a ratio column without the zero policy: the plain quotient.
RatioCellPlain(num, den) == VDiv(num, den)

\* One cell of df[c1] / df[c2].replace({0: np.nan}), after .fillna(0.0).
RatioCell(num, den) ==
    LET q == VDiv(num, IF IsZero(den) THEN NaN ELSE den)
    IN  IF IsNaN(q) THEN F(0) ELSE q

RatioColumn(df, c1, c2) ==
    Tup([i \in 1..NumRows(df) |-> RatioCell(DictGet(df, c1)[i], DictGet(df, c2)[i])])

\* itertools.combinations(cols, 2) from the pair of positions (i, j) on.
RECURSIVE Combinations(_, _, _)
Combinations(cols, i, j) ==
    IF i >= Len(cols) THEN <<>>
    ELSE IF j > Len(cols) THEN Combinations(cols, i + 1, i + 2)
    ELSE <<<<cols[i], cols[j]>>>> \o Combinations(cols, i, j + 1)

\* The loop of pairwise_ratios with its second assignment left out.
RECURSIVE AddRatiosOneWay(_, _)
AddRatiosOneWay(df, pairs) ==
    IF pairs = <<>> THEN df
    ELSE LET c1 == pairs[1][1]
             c2 == pairs[1][2]
         IN  AddRatiosOneWay(DictSet(df, c1 \o "/" \o c2, RatioColumn(df, c1, c2)),
                             Tail(pairs))

\* The loop of pairwise_ratios: for each pair the ratio and its inverse.
RECURSIVE AddRatios(_, _)
AddRatios(df, pairs) ==
    IF pairs = <<>> THEN df
    ELSE LET c1 == pairs[1][1]
             c2 == pairs[1][2]
             ratio == DictSet(df, c1 \o "/" \o c2, RatioColumn(df, c1, c2))
             inv == DictSet(ratio, c2 \o "/" \o c1, RatioColumn(ratio, c2, c1))
         IN  AddRatios(inv, Tail(pairs))

pairwise_ratios(df, value_cols) == AddRatios(df, Combinations(value_cols, 1, 2))

\* A formula is the sequence of its lexical tokens.  The integer tokens:
IntegerTokens == {"0", "1", "2", "3", "4"}

Tokens == IntegerTokens \cup {"+", "-", "*", "/", "(", ")"}

\* rename_map with the columns numbered from 0.
RenameMapFromZero(column_order, i) ==
    IF i > Len(column_order) THEN <<>>
    ELSE [j \in 1..Len(column_order) |->
             [key |-> column_order[j], val |-> "p" \o ToString(j - 1)]]

\* rename_map = {col: f"p{i+1}" for i, col in enumerate(column_order)},
\* built from position i on.
RECURSIVE RenameMap(_, _)
RenameMap(column_order, i) ==
    IF i > Len(column_order) THEN <<>>
    ELSE DictSet(RenameMap(column_order, i + 1), column_order[i], "p" \o ToString(i))

\* temp = df[column_order].rename(columns=rename_map)
Temp(df, column_order) ==
    LET rename_map == RenameMap(column_order, 1)
    IN  Tup([j \in 1..Len(column_order) |->
                [key |-> DictGet(rename_map, column_order[j]),
                 val |-> DictGet(df, column_order[j])]])

\* re.sub(r"\b(\d+)\b", lambda m: f"p{m.group(1)}", expr)
Norm(expr) ==
    Tup([i \in 1..Len(expr) |->
            IF expr[i] \in IntegerTokens THEN "p" \o expr[i] ELSE expr[i]])

\* Arithmetic on columns, row by row.
ColNeg(a) == Tup([i \in 1..Len(a) |-> VNeg(a[i])])

ColAdd(a, b) == Tup([i \in 1..Len(a) |-> VAdd(a[i], b[i])])

ColSub(a, b) == Tup([i \in 1..Len(a) |-> VSub(a[i], b[i])])

ColMul(a, b) == Tup([i \in 1..Len(a) |-> VMul(a[i], b[i])])

ColDiv(a, b) == Tup([i \in 1..Len(a) |-> VDiv(a[i], b[i])])

\* DataFrame.eval on the token sequence toks from position i on: each
\* parser returns whether it succeeded, the column it computed and the
\* position after what it consumed.
Failed == [ok |-> FALSE, val |-> <<>>, pos |-> 0]

Parsed(val, pos) == [ok |-> TRUE, val |-> val, pos |-> pos]

RECURSIVE ParseExpr(_, _, _)
RECURSIVE ParseExprRest(_, _, _, _)
RECURSIVE ParseTerm(_, _, _)
RECURSIVE ParseTermRest(_, _, _, _)
RECURSIVE ParseFactor(_, _, _)
RECURSIVE ParseAtom(_, _, _)

\* atom: a column name, or ( expr )
ParseAtom(temp, toks, i) ==
    IF i > Len(toks) THEN Failed
    ELSE IF toks[i] = "("
    THEN LET e == ParseExpr(temp, toks, i + 1)
         IN  IF e.ok /\ e.pos <= Len(toks) /\ toks[e.pos] = ")"
             THEN Parsed(e.val, e.pos + 1)
             ELSE Failed
    ELSE IF DictHas(temp, toks[i]) THEN Parsed(DictGet(temp, toks[i]), i + 1)
    ELSE Failed

\* factor: + factor, - factor, or atom
ParseFactor(temp, toks, i) ==
    IF i > Len(toks) THEN Failed
    ELSE IF toks[i] = "-"
    THEN LET f == ParseFactor(temp, toks, i + 1)
         IN  IF f.ok THEN Parsed(ColNeg(f.val), f.pos) ELSE Failed
    ELSE IF toks[i] = "+" THEN ParseFactor(temp, toks, i + 1)
    ELSE ParseAtom(temp, toks, i)

\* term: factor, then * factor or / factor, left to right
ParseTermRest(temp, toks, i, acc) ==
    IF i <= Len(toks) /\ toks[i] \in {"*", "/"}
    THEN LET f == ParseFactor(temp, toks, i + 1)
         IN  IF ~f.ok THEN Failed
             ELSE ParseTermRest(temp, toks, f.pos,
                                IF toks[i] = "*" THEN ColMul(acc, f.val)
                                                 ELSE ColDiv(acc, f.val))
    ELSE Parsed(acc, i)

ParseTerm(temp, toks, i) ==
    LET f == ParseFactor(temp, toks, i)
    IN  IF f.ok THEN ParseTermRest(temp, toks, f.pos, f.val) ELSE Failed

\* expr: term, then + term or - term, left to right
ParseExprRest(temp, toks, i, acc) ==
    IF i <= Len(toks) /\ toks[i] \in {"+", "-"}
    THEN LET t == ParseTerm(temp, toks, i + 1)
         IN  IF ~t.ok THEN Failed
             ELSE ParseExprRest(temp, toks, t.pos,
                                IF toks[i] = "+" THEN ColAdd(acc, t.val)
                                                 ELSE ColSub(acc, t.val))
    ELSE Parsed(acc, i)

ParseExpr(temp, toks, i) ==
    LET t == ParseTerm(temp, toks, i)
    IN  IF t.ok THEN ParseExprRest(temp, toks, t.pos, t.val) ELSE Failed

\* temp.eval(norm): the column, or a failure (the exception).
Eval(temp, norm) ==
    LET e == ParseExpr(temp, norm, 1)
    IN  IF e.ok /\ e.pos = Len(norm) + 1 THEN e ELSE Failed

NaNColumn(df) == Tup([i \in 1..NumRows(df) |-> NaN])

\* The loop over formulas with an exception that is not contained: the
\* failing formula and every formula after it get NaN.
RECURSIVE EvaluateIntoAbort(_, _, _, _)
EvaluateIntoAbort(acc, df, temp, formulas) ==
    IF formulas = <<>> THEN acc
    ELSE LET e == Eval(temp, Norm(formulas[1]))
         IN  EvaluateIntoAbort(
                 DictSet(acc, formulas[1], IF e.ok THEN e.val ELSE NaNColumn(df)),
                 df, IF e.ok THEN temp ELSE <<>>, Tail(formulas))

\* for expr in formulas: try: out[expr] = temp.eval(norm)
\*                       except Exception: out[expr] = float('nan')
RECURSIVE EvaluateInto(_, _, _, _)
EvaluateInto(acc, df, temp, formulas) ==
    IF formulas = <<>> THEN acc
    ELSE LET e == Eval(temp, Norm(formulas[1]))
         IN  EvaluateInto(
                 DictSet(acc, formulas[1], IF e.ok THEN e.val ELSE NaNColumn(df)),
                 df, temp, Tail(formulas))

evaluate_formulas(df, formulas, column_order) ==
    EvaluateInto(<<>>, df, Temp(df, column_order), formulas)

----------------------------------------------------------------------------
(* Inputs and actions of the table models.                                  *)

\* The name of the j-th range column.
ColName(j) == ToString(100 * j) \o "-" \o ToString(100 * j + 100)

ColNames == [j \in 1..NCols |-> ColName(j)]

\* The table holding the given rows.
TableOf(rows) ==
    Tup([j \in 1..NCols |->
            [key |-> ColName(j), val |-> Tup([i \in 1..Len(rows) |-> F(rows[i][j])])]])

\* One row, or two of which the second is the first reversed.
TablesOf(rowset) ==
    {TableOf(<<r>>) : r \in rowset} \cup {TableOf(<<r, Reverse(r)>>) : r \in rowset}

\* The row (4, 2, 2, ...), and the same row with one cell set to 0.
PatternRows ==
    {[j \in 1..NCols |-> IF j = z THEN 0 ELSE IF j = 1 THEN 4 ELSE 2] : z \in 0..NCols}

Formulas == UNION {[1..n -> Tokens] : n \in 1..MaxTok}

Example == <<"1", "/", "(", "2", "+", "3", ")">>

\* A call evaluates one formula, or two of the one-token formulas and Example.
FormulaLists ==
    LET short == [1..1 -> Tokens] \cup {Example}
    IN  {<<f>> : f \in Formulas \cup {Example}}
        \cup {<<f, g>> : f \in short, g \in short}

\* The ratio expressions a/b, alone or followed by the inverse b/a.
RatioLists ==
    LET refs == IntegerTokens \X IntegerTokens
    IN  {<<<<r[1], "/", r[2]>>>> : r \in refs}
        \cup {<<<<r[1], "/", r[2]>>, <<r[2], "/", r[1]>>>> : r \in refs}

MathLists == {<<>>, <<<<"1", "-", "2">>>>, <<<<"1", "-">>>>}

InitFormulas ==
    /\ ComputeIdle
    /\ FilesIdle
    /\ wide \in TablesOf(PatternRows)
    /\ tcall = NoCall
    /\ out = <<>>
    /\ ratio_df = <<>>
    /\ math_df = <<>>

\* pairwise_ratios(df, value_cols): df is changed in place and returned.
\* Each behaviour of the table models makes one call.
PairwiseRatios(value_cols) ==
    /\ tcall.op = "none"
    /\ tcall' = [op |-> "pairwise_ratios", cols |-> value_cols, exprs |-> <<>>, math |-> <<>>]
    /\ wide' = pairwise_ratios(wide, value_cols)
    /\ out' = wide'
    /\ UNCHANGED <<ratio_df, math_df, intVars, fileVars>>

\* evaluate_formulas(df, formulas, column_order)
EvaluateFormulas ==
    /\ tcall.op = "none"
    /\ \E formulas \in FormulaLists :
          /\ tcall' = [op |-> "evaluate_formulas", cols |-> DictKeys(wide),
                       exprs |-> formulas, math |-> <<>>]
          /\ out' = evaluate_formulas(wide, formulas, DictKeys(wide))
    /\ UNCHANGED <<wide, ratio_df, math_df, intVars, fileVars>>

\* _export_results, step 3: the Ratios and Spectral Math tables (their
\* formula columns; the index columns are copied from wide).
ExportResults ==
    /\ tcall.op = "none"
    /\ \E ratio_exprs \in RatioLists, math_exprs \in MathLists :
          LET base_cols == DictKeys(wide)
          IN  /\ tcall' = [op |-> "export", cols |-> base_cols,
                           exprs |-> ratio_exprs, math |-> math_exprs]
              /\ ratio_df' = IF ratio_exprs # <<>>
                             THEN evaluate_formulas(wide, ratio_exprs, base_cols) ELSE <<>>
              /\ math_df' = IF math_exprs # <<>>
                            THEN evaluate_formulas(wide, math_exprs, base_cols) ELSE <<>>
    /\ UNCHANGED <<wide, out, intVars, fileVars>>

NextFormulas ==
    \/ EvaluateFormulas
    \/ ExportResults
    \/ PairwiseRatios(DictKeys(wide))

SpecFormulas == InitFormulas /\ [][NextFormulas]_vars

\* Cells of the tables of the ratio model.
RatioCells == {0, 3, 11, 17}

\* Lists of distinct columns of the table, in any order.
ColumnLists ==
    {s \in UNION {[1..n -> 1..NCols] : n \in 0..NCols} :
        \A i, j \in 1..Len(s) : i # j => s[i] # s[j]}

InitRatios ==
    /\ ComputeIdle
    /\ FilesIdle
    /\ wide \in TablesOf([1..NCols -> RatioCells])
    /\ tcall = NoCall
    /\ out = <<>>
    /\ ratio_df = <<>>
    /\ math_df = <<>>

NextRatios ==
    /\ tcall.op = "none"
    /\ \E s \in ColumnLists : PairwiseRatios(Tup([i \in 1..Len(s) |-> ColName(s[i])]))

SpecRatios == InitRatios /\ [][NextRatios]_vars

----------------------------------------------------------------------------
(***************************************************************************)
(* binary64 quotients and products (IEEE-754, round to nearest, ties to    *)
(* even) of positive operands.  A double is [m, e]: the 53-bit significand *)
(* m as five digits in base 2^13, most significant first (the first digit  *)
(* is 1), and the exponent e; its value is (m / 2^52) * 2^e.               *)
(***************************************************************************)
Digit == 8192

Double(m, e) == [m |-> m, e |-> e]

\* n/d = (n'/d') * 2^e with 1 <= n'/d' < 2, for n, d > 0.
RECURSIVE Normalize(_, _, _)
Normalize(n, d, e) ==
    IF n < d THEN Normalize(2 * n, d, e - 1)
    ELSE IF n >= 2 * d THEN Normalize(n, 2 * d, e + 1)
    ELSE <<n, d, e>>

\* The next k digits of r/d (r < d) and the remainder left after them.
RECURSIVE LongDiv(_, _, _)
LongDiv(r, d, k) ==
    IF k = 0 THEN [dig |-> <<>>, rem |-> r]
    ELSE LET rest == LongDiv((r * Digit) % d, d, k - 1)
         IN  [dig |-> <<(r * Digit) \div d>> \o rest.dig, rem |-> rest.rem]

\* m + 1, digit by digit from the last one; the first digit takes the carry.
RECURSIVE Increment(_, _)
Increment(m, i) ==
    IF i = 1 \/ m[i] + 1 < Digit THEN [m EXCEPT ![i] = m[i] + 1]
    ELSE Increment([m EXCEPT ![i] = 0], i - 1)

\* Round to nearest, ties to even: the significand m with exponent e, the
\* first discarded bit (guard) and whether any later bit is set (sticky).
RoundNearestEven(m, e, guard, sticky) ==
    IF guard /\ (sticky \/ m[5] % 2 = 1)
    THEN LET up == Increment(m, 5)
         IN  IF up[1] = 2 THEN Double(<<1, 0, 0, 0, 0>>, e + 1) ELSE Double(up, e)
    ELSE Double(m, e)

\* The double nearest n/d, for integers n, d > 0: the float quotient of two
\* doubles holding n and d.
FloatDiv(n, d) ==
    LET s == Normalize(n, d, 0)
        q == LongDiv(s[1] - s[2], s[2], 4)
    IN  RoundNearestEven(<<1>> \o q.dig, s[3], 2 * q.rem >= s[2], 2 * q.rem > s[2])

\* Digit k (weight Digit^k, k in 0..4) of a significand.
DigitAt(m, k) == IF k \in 0..4 THEN m[5 - k] ELSE 0

\* Column k (0..8) of the schoolbook product of two significands.
Column(a, b, k) ==
    DigitAt(a, 0) * DigitAt(b, k) + DigitAt(a, 1) * DigitAt(b, k - 1)
        + DigitAt(a, 2) * DigitAt(b, k - 2) + DigitAt(a, 3) * DigitAt(b, k - 3)
        + DigitAt(a, 4) * DigitAt(b, k - 4)

\* The digits (least significant first, nine of them) of the exact product.
RECURSIVE ProductDigits(_, _, _, _)
ProductDigits(a, b, k, carry) ==
    LET c == Column(a, b, k) + carry
    IN  IF k = 8 THEN <<c>>
        ELSE <<c % Digit>> \o ProductDigits(a, b, k + 1, c \div Digit)

\* The float product of two doubles.
FloatMul(a, b) ==
    LET P == ProductDigits(a.m, b.m, 0, 0)
        low == P[1] # 0 \/ P[2] # 0 \/ P[3] # 0
    IN  IF P[9] >= 2
        THEN RoundNearestEven(
                 <<P[9] \div 2,
                   P[8] \div 2 + (P[9] % 2) * (Digit \div 2),
                   P[7] \div 2 + (P[8] % 2) * (Digit \div 2),
                   P[6] \div 2 + (P[7] % 2) * (Digit \div 2),
                   P[5] \div 2 + (P[6] % 2) * (Digit \div 2)>>,
                 a.e + b.e + 1, P[5] % 2 = 1, low \/ P[4] # 0)
        ELSE RoundNearestEven(
                 <<P[9], P[8], P[7], P[6], P[5]>>,
                 a.e + b.e, P[4] >= Digit \div 2, low \/ P[4] % (Digit \div 2) # 0)

\* The doubles 1.0, its successor and its two predecessors.
One == Double(<<1, 0, 0, 0, 0>>, 0)

----------------------------------------------------------------------------
(* Properties of the Table Assembler.                                       *)

\* The column number an integer token writes.
RefIndex(tok) == CHOOSE k \in 0..9 : ToString(k) = tok

\* The token refers to one of the table's columns.
ValidRef(tok) == tok \in IntegerTokens /\ RefIndex(tok) \in 1..NCols

\* The column of wide an integer token refers to.
ColumnOf(tok) == wide[RefIndex(tok)].val

\* The token sequence e is an arithmetic expression: scanning from token i
\* at parenthesis depth, after an operand or not.  An operand is a
\* reference or a parenthesised expression; + and - may be signs.
RECURSIVE WellFormedFrom(_, _, _, _)
WellFormedFrom(e, i, depth, afterOperand) ==
    IF i > Len(e) THEN afterOperand /\ depth = 0
    ELSE IF afterOperand
    THEN CASE e[i] \in {"+", "-", "*", "/"} -> WellFormedFrom(e, i + 1, depth, FALSE)
           [] e[i] = ")" -> depth > 0 /\ WellFormedFrom(e, i + 1, depth - 1, TRUE)
           [] OTHER -> FALSE
    ELSE CASE e[i] \in {"+", "-"} -> WellFormedFrom(e, i + 1, depth, FALSE)
           [] e[i] = "(" -> WellFormedFrom(e, i + 1, depth + 1, FALSE)
           [] e[i] \in IntegerTokens -> WellFormedFrom(e, i + 1, depth, TRUE)
           [] OTHER -> FALSE

\* The formula cannot be evaluated: bad syntax, or a reference k with
\* k < 1 or k > number of columns.
CannotEvaluate(e) ==
    \/ ~WellFormedFrom(e, 1, 0, FALSE)
    \/ \E i \in 1..Len(e) : e[i] \in IntegerTokens /\ ~ValidRef(e[i])

\* C6 as stated: in every ratio column (those pairwise_ratios appends, and
\* those of the export's Ratios table for a ratio expression a/b over
\* existing columns) a row whose denominator is 0 holds exactly 0.0, and no
\* ratio cell is NaN or infinite.
RatioCellsNeverUndefined ==
    /\ tcall.op = "pairwise_ratios" =>
          \A i, j \in 1..Len(tcall.cols) : i # j =>
              \A row \in 1..NumRows(out) :
                  LET q == DictGet(out, tcall.cols[i] \o "/" \o tcall.cols[j])[row]
                      den == DictGet(out, tcall.cols[j])[row]
                  IN  IsFin(q) /\ (IsZero(den) => q = F(0))
    /\ tcall.op = "export" =>
          \A k \in 1..Len(tcall.exprs) :
              LET e == tcall.exprs[k]
              IN  ValidRef(e[1]) /\ ValidRef(e[3]) =>
                      \A row \in 1..NumRows(wide) :
                          LET q == DictGet(ratio_df, e)[row]
                          IN  IsFin(q) /\ (IsZero(ColumnOf(e[3])[row]) => q = F(0))

\* The double a positive finite ratio cell holds: the quotient, rounded.
CellDouble(v) == FloatDiv(v.n, v.d)

\* The doubles within 2^-52 of 1.0.
NearOne ==
    {One,
     Double(<<1, 0, 0, 0, 1>>, 0),
     Double(<<1, Digit - 1, Digit - 1, Digit - 1, Digit - 1>>, -1),
     Double(<<1, Digit - 1, Digit - 1, Digit - 1, Digit - 2>>, -1)}

\* The float product of the cells of c1/c2 and c2/c1 in a row.
RatioProduct(c1, c2, row) ==
    FloatMul(CellDouble(DictGet(out, c1 \o "/" \o c2)[row]),
             CellDouble(DictGet(out, c2 \o "/" \o c1)[row]))

BothNonZero(c1, c2, row) ==
    ~IsZero(DictGet(out, c1)[row]) /\ ~IsZero(DictGet(out, c2)[row])

\* C7 amended: for every list of n distinct value columns pairwise_ratios
\* adds n*(n-1) columns, "c1/c2" and "c2/c1" for every pair, and in every
\* row where neither c1 nor c2 is zero the two cells are the float quotients
\* c1/c2 and c2/c1, whose float product is within 2^-52 of 1.
RatiosBothWaysNearOne ==
    tcall.op = "pairwise_ratios" =>
        LET cols == tcall.cols
            n == Len(cols)
        IN  /\ Len(out) = NCols + n * (n - 1)
            /\ \A i, j \in 1..n : i # j =>
                  /\ DictHas(out, cols[i] \o "/" \o cols[j])
                  /\ \A row \in 1..NumRows(out) : BothNonZero(cols[i], cols[j], row) =>
                        /\ DictGet(out, cols[i] \o "/" \o cols[j])[row]
                               = VDiv(DictGet(out, cols[i])[row], DictGet(out, cols[j])[row])
                        /\ RatioProduct(cols[i], cols[j], row) \in NearOne

\* C7 witness: three value columns, six ratio columns, and a row in which
\* the product of a ratio and its inverse is not 1.0.
ReciprocalsOffByOneUlp ==
    /\ tcall.op = "pairwise_ratios"
    /\ Len(tcall.cols) = 3
    /\ Len(out) = NCols + 6
    /\ \E i, j \in 1..3 : \E row \in 1..NumRows(out) :
          /\ i # j
          /\ BothNonZero(tcall.cols[i], tcall.cols[j], row)
          /\ RatioProduct(tcall.cols[i], tcall.cols[j], row) # One

\* C7 as stated: both directions exist for every pair, n*(n-1) new columns,
\* and in every row where neither column is zero the two values multiply
\* to 1.
RatiosMultiplyToOne ==
    tcall.op = "pairwise_ratios" =>
        LET cols == tcall.cols
            n == Len(cols)
        IN  /\ Len(out) = NCols + n * (n - 1)
            /\ \A i, j \in 1..n : i # j =>
                  /\ DictHas(out, cols[i] \o "/" \o cols[j])
                  /\ \A row \in 1..NumRows(out) : BothNonZero(cols[i], cols[j], row) =>
                        RatioProduct(cols[i], cols[j], row) = One

\* C8: a formula that cannot be evaluated yields NaN in every row of its
\* own column, the call returns a column for every formula, and every
\* formula's column equals the one it gets when evaluated alone.
FormulasFaultIsolated ==
    tcall.op = "evaluate_formulas" =>
        \A k \in 1..Len(tcall.exprs) :
            LET e == tcall.exprs[k]
                alone == evaluate_formulas(wide, <<e>>, tcall.cols)
            IN  /\ DictHas(out, e)
                /\ DictGet(out, e) = DictGet(alone, e)
                /\ Len(DictGet(out, e)) = NumRows(wide)
                /\ CannotEvaluate(e) => \A row \in 1..NumRows(wide) : IsNaN(DictGet(out, e)[row])

\* C8 witness: a call with two formulas of which one cannot be evaluated
\* and the other has a finite value in every row.
BadFormulaBesideGood ==
    /\ tcall.op = "evaluate_formulas"
    /\ Len(tcall.exprs) = 2
    /\ Len(out) = 2
    /\ \E k \in 1..2 :
          /\ CannotEvaluate(tcall.exprs[k])
          /\ \A row \in 1..NumRows(wide) : IsNaN(DictGet(out, tcall.exprs[k])[row])
          /\ ~CannotEvaluate(tcall.exprs[3 - k])
          /\ \A row \in 1..NumRows(wide) : IsFin(DictGet(out, tcall.exprs[3 - k])[row])

\* The operation a binary operator token writes.
Apply(op, a, b) ==
    CASE op = "+" -> VAdd(a, b)
      [] op = "-" -> VSub(a, b)
      [] op = "*" -> VMul(a, b)
      [] op = "/" -> VDiv(a, b)

\* C9: an integer token k denotes the k-th column (1-based) of
\* column_order, a formula's value in a row is its arithmetic over that
\* row's column values, and "1/(2+3)" over (4, 2, 2) is 1.0.
IntegerTokenIsColumn ==
    tcall.op = "evaluate_formulas" =>
        \A k \in 1..Len(tcall.exprs) :
            LET e == tcall.exprs[k]
                col == DictGet(out, e)
            IN  /\ Len(e) = 1 /\ ValidRef(e[1]) => col = ColumnOf(e[1])
                /\ Len(e) = 2 /\ e[1] = "-" /\ ValidRef(e[2]) =>
                      \A row \in 1..NumRows(wide) : col[row] = VNeg(ColumnOf(e[2])[row])
                /\ Len(e) = 3 /\ ValidRef(e[1]) /\ ValidRef(e[3])
                      /\ e[2] \in {"+", "-", "*", "/"} =>
                      \A row \in 1..NumRows(wide) :
                          col[row] = Apply(e[2], ColumnOf(e[1])[row], ColumnOf(e[3])[row])
                /\ e = Example =>
                      \A row \in 1..NumRows(wide) :
                          /\ col[row] = VDiv(wide[1].val[row],
                                             VAdd(wide[2].val[row], wide[3].val[row]))
                          /\ (/\ wide[1].val[row] = F(4)
                              /\ wide[2].val[row] = F(2)
                              /\ wide[3].val[row] = F(2)) => col[row] = F(1)
                /\ ~CannotEvaluate(e) => Eval(Temp(wide, tcall.cols), Norm(e)).ok

\* C9 witness: "1/(2+3)" evaluated over a row holding (4, 2, 2) gives 1.0.
ExampleEvaluatesToOne ==
    /\ tcall.op = "evaluate_formulas"
    /\ tcall.exprs = <<Example>>
    /\ wide[1].val[1] = F(4) /\ wide[2].val[1] = F(2) /\ wide[3].val[1] = F(2)
    /\ DictGet(out, Example)[1] = F(1)

----------------------------------------------------------------------------
(* Spectrum Reader: load_map_file, read_spectra and the spectra cache.      *)
(* A file is the sequence of its lines, a line the sequence of the numbers  *)
(* on it (for an .spc file: the lines of data_txt()).  A DataFrame of the   *)
(* reader is [wavenumber, intensity]; a SpectrumSet is [spectra, coords].   *)

MaxCoords == 2     \* a map row starts with 0..MaxCoords coordinates
MaxMapRows == 2    \* a file holds 1..MaxMapRows data rows

\* The folder's files, as sorted(os.listdir(folder)) lists them.
FileNames == <<"a.txt", "b.spc", "c.csv">>

\* os.path.splitext(path)[1].lower()
Extension(path) ==
    CASE path \in {"a.txt", "d1/a.txt", "d2/a.txt"} -> ".txt"
      [] path \in {"b.spc", "d1/b.spc"} -> ".spc"
      [] OTHER -> ".csv"

Raise(exception) == [raised |-> exception, val |-> <<>>]

Return(val) == [raised |-> "", val |-> val]

\* np.loadtxt(path, skiprows=1) with the default ndmin=0: the rows after the
\* first line as an array, its axes of length one squeezed away.
LoadTxt(lines) ==
    LET rows == Tail(lines)
    IN  CASE rows = <<>> -> [shape |-> <<0>>, data |-> <<>>]
          [] Len(rows) = 1 /\ Len(rows[1]) = 1 -> [shape |-> <<>>, data |-> rows[1][1]]
          [] Len(rows) = 1 -> [shape |-> <<Len(rows[1])>>, data |-> rows[1]]
          [] Len(rows[1]) = 1 ->
               [shape |-> <<Len(rows)>>, data |-> Tup([i \in 1..Len(rows) |-> rows[i][1]])]
          [] OTHER -> [shape |-> <<Len(rows), Len(rows[1])>>, data |-> rows]

load_map_file(lines) ==
    LET wavenumbers == lines[1]
        data == LoadTxt(lines)
    IN  IF Len(data.shape) < 2 THEN Raise("IndexError")
        ELSE LET num_coords == data.shape[2] - Len(wavenumbers)
                 pixels == 1..data.shape[1]
             IN  Return([spectra |->
                             Tup([i \in pixels |->
                                     [wavenumber |-> wavenumbers,
                                      intensity |-> SubSeq(data.data[i], num_coords + 1,
                                                           data.shape[2])]]),
                         coords |->
                             Tup([i \in pixels |-> SubSeq(data.data[i], 1, num_coords)])])

\* pd.read_csv(..., sep=r"\s+", names=["wavenumber", "intensity"]) on lines
\* of two numbers.
ReadCsv(lines) ==
    [wavenumber |-> Tup([i \in 1..Len(lines) |-> lines[i][1]]),
     intensity |-> Tup([i \in 1..Len(lines) |-> lines[i][2]])]

\* The last branch reading the file as the .spc branch does.
ParseOtherAsCsv(lines) == Return([spectra |-> <<ReadCsv(lines)>>, coords |-> <<>>])

\* else: spectra, coords = [], []
ParseOther(lines) == Return([spectra |-> <<>>, coords |-> <<>>])

\* read_spectra past its cache check: parse the file by its extension.
ParseFile(path, lines) ==
    CASE Extension(path) = ".txt" ->
           IF Len(lines[1]) > 2 THEN load_map_file(lines)
           ELSE Return([spectra |-> <<ReadCsv(lines)>>, coords |-> <<>>])
      [] Extension(path) = ".spc" ->
           Return([spectra |-> <<ReadCsv(lines)>>, coords |-> <<>>])
      [] OTHER -> ParseOther(lines)

\* The branches of read_spectra that open the file: open(path) for .txt,
\* spc.File(path) for .spc; the last branch opens nothing.
Opens(path) == Extension(path) \in {".txt", ".spc"}

\* A cache check that never finds the path.
CacheMiss(cache, path) == FALSE

\* if path in _spectra_cache
CacheHit(cache, path) == DictHas(cache, path)

\* read_spectra(path) in the state st = [cache, returned, ret]: the state
\* after the call.  ret.opened tells whether the call opened the file and
\* ret.again whether an earlier call for this path had returned.
ReadSpectraIn(st, path) ==
    LET again == DictHas(st.returned, path)
    IN  IF CacheHit(st.cache, path)
        THEN [st EXCEPT !.ret = [path |-> path, raised |-> "",
                                 val |-> DictGet(st.cache, path),
                                 opened |-> FALSE, again |-> again]]
        ELSE LET r == ParseFile(path, files[path])
             IN  IF r.raised # ""
                 THEN [st EXCEPT !.ret = [path |-> path, raised |-> r.raised, val |-> <<>>,
                                          opened |-> Opens(path), again |-> again]]
                 ELSE [cache |-> DictSet(st.cache, path, r.val),
                       returned |-> IF again THEN st.returned
                                    ELSE DictSet(st.returned, path, r.val),
                       ret |-> [path |-> path, raised |-> "", val |-> r.val,
                                opened |-> Opens(path), again |-> again]]

\* The loop of compute_areas_and_figures over sorted(os.listdir(folder)), as
\* far as the cache goes: every file is read, until a read raises.
RECURSIVE ReadAll(_, _)
ReadAll(st, names) ==
    IF names = <<>> THEN st
    ELSE LET next == ReadSpectraIn(st, names[1])
         IN  IF next.ret.raised # "" THEN next ELSE ReadAll(next, Tail(names))

\* The value at (row i, column j) of a generated file: every position of a
\* file holds a different number.
Cell(i, j) == 10 * i + j

\* The first line of the generated map files: N = 3 wavenumbers.
Header == <<100, 200, 300>>

\* A map file: the header, then k rows of C + N values.
MapLines(C, k) ==
    <<Header>> \o Tup([i \in 1..k |-> Tup([j \in 1..(C + Len(Header)) |-> Cell(i, j)])])

\* A single-spectrum file: k lines of two values.
SingleLines(k) == Tup([i \in 1..k |-> <<100 * i, Cell(i, 2)>>])

MapFiles == {MapLines(C, k) : C \in 0..MaxCoords, k \in 1..MaxMapRows}

SingleFiles == {SingleLines(k) : k \in 1..MaxMapRows}

\* What a file of the folder may hold.
ContentsOf(path) ==
    CASE Extension(path) = ".txt" -> MapFiles \cup SingleFiles
      [] Extension(path) = ".spc" -> SingleFiles
      [] OTHER -> {SingleLines(1)}

InitFiles ==
    /\ ComputeIdle
    /\ TableIdle
    /\ files \in {f \in [{"a.txt", "b.spc", "c.csv"} -> MapFiles \cup SingleFiles] :
                     \A p \in DOMAIN f : f[p] \in ContentsOf(p)}
    /\ _spectra_cache = <<>>
    /\ returned = <<>>
    /\ ret = NoRead
    /\ fop = "none"
    /\ ShellIdle

\* read_spectra(path)
ReadSpectra(path) ==
    LET st == ReadSpectraIn([cache |-> _spectra_cache, returned |-> returned, ret |-> ret], path)
    IN  /\ _spectra_cache' = st.cache
        /\ returned' = st.returned
        /\ ret' = st.ret
        /\ fop' = "read"
        /\ UNCHANGED <<files, shellVars, intVars, tableVars>>

\* compute_areas_and_figures_on_file(p, ...), the call of preview and run:
\* compute_areas_and_figures on the folder of p.
ComputeOnFile ==
    LET st == ReadAll([cache |-> _spectra_cache, returned |-> returned, ret |-> ret], FileNames)
    IN  /\ _spectra_cache' = st.cache
        /\ returned' = st.returned
        /\ ret' = st.ret
        /\ fop' = "compute"
        /\ UNCHANGED <<files, shellVars, intVars, tableVars>>

\* _export_results: it reads no file and does not touch the cache.
ExportStep ==
    /\ fop' = "export"
    /\ UNCHANGED <<files, _spectra_cache, returned, ret, shellVars, intVars, tableVars>>

\* The file is rewritten from outside the program.
EditFile(path) ==
    /\ \E lines \in ContentsOf(path) \ {files[path]} :
          files' = [files EXCEPT ![path] = lines]
    /\ fop' = "edit"
    /\ UNCHANGED <<_spectra_cache, returned, ret, shellVars, intVars, tableVars>>

NextFiles ==
    \/ \E i \in 1..Len(FileNames) : ReadSpectra(FileNames[i])
    \/ ComputeOnFile
    \/ ExportStep
    \/ \E i \in 1..Len(FileNames) : EditFile(FileNames[i])

SpecFiles == InitFiles /\ [][NextFiles]_vars

----------------------------------------------------------------------------
(* Properties of the Spectrum Reader.                                       *)

\* The cache keeps every entry it has, unchanged and in place.
CacheEntriesKept ==
    /\ Len(_spectra_cache') >= Len(_spectra_cache)
    /\ \A i \in 1..Len(_spectra_cache) : _spectra_cache'[i] = _spectra_cache[i]

\* C4: once a read_spectra(p) call has returned, every later read_spectra(p)
\* returns the SpectrumSet of that first call without opening the file,
\* whatever has happened to the file since, and no step of the pipeline
\* removes or replaces an entry of the spectra cache.
CachedReadsServeFirstResult ==
    /\ [](ret.again => /\ ret.raised = ""
                       /\ ret.val = DictGet(returned, ret.path)
                       /\ ~ret.opened)
    /\ [][CacheEntriesKept]_vars

\* C4 witness: a read served from the cache after the file was rewritten:
\* the file now parses to something else than what the call returned.
StaleReadServed ==
    /\ fop = "read"
    /\ ret.again
    /\ ~ret.opened
    /\ ParseFile(ret.path, files[ret.path]).raised = ""
    /\ ParseFile(ret.path, files[ret.path]).val # ret.val
    /\ ret.val = DictGet(returned, ret.path)

\* The lines are those of a map file: N > 2 wavenumbers, then k >= 1 rows of
\* C + N values each, C >= 0.
IsMapFile(lines) ==
    /\ Len(lines[1]) > 2
    /\ Len(lines) >= 2
    /\ \A i \in 2..Len(lines) :
          Len(lines[i]) >= Len(lines[1]) /\ Len(lines[i]) = Len(lines[2])

\* C10 as stated: read_spectra of a .txt map file with k >= 1 rows returns
\* k spectra and k coordinates, spectrum i holding the header and the last
\* N values of row i and coordinate i the first C values of row i; every
\* returned SpectrumSet has no coordinates or one per spectrum.
MapFileReadsEveryRow ==
    /\ (fop = "read" /\ ret.opened /\ Extension(ret.path) = ".txt"
           /\ IsMapFile(files[ret.path])) =>
          LET lines == files[ret.path]
              N == Len(lines[1])
              k == Len(lines) - 1
              C == Len(lines[2]) - N
          IN  /\ ret.raised = ""
              /\ Len(ret.val.spectra) = k
              /\ Len(ret.val.coords) = k
              /\ \A i \in 1..k :
                    /\ ret.val.spectra[i].wavenumber = lines[1]
                    /\ ret.val.spectra[i].intensity = SubSeq(lines[i + 1], C + 1, C + N)
                    /\ ret.val.coords[i] = SubSeq(lines[i + 1], 1, C)
    /\ (ret.path # "" /\ ret.raised = "") =>
          \/ Len(ret.val.coords) = 0
          \/ Len(ret.val.coords) = Len(ret.val.spectra)

----------------------------------------------------------------------------
(* The folders.  Two directories hold the files; d1/a.txt and d2/a.txt     *)
(* share their file name.                                                  *)

Folders == {"d1", "d2"}

Paths == <<"d1/a.txt", "d1/b.spc", "d2/a.txt", "d2/c.csv">>

\* os.path.dirname(path)
Dirname(path) ==
    CASE path \in {"d1/a.txt", "d1/b.spc"} -> "d1"
      [] path \in {"d2/a.txt", "d2/c.csv"} -> "d2"
      [] OTHER -> ""

\* os.path.basename(path)
Basename(path) ==
    CASE path \in {"d1/a.txt", "d2/a.txt"} -> "a.txt"
      [] path = "d1/b.spc" -> "b.spc"
      [] path = "d2/c.csv" -> "c.csv"
      [] OTHER -> path

\* os.path.join(folder, fname)
Join(folder, fname) == folder \o "/" \o fname

\* os.path.splitext(fname)[0]
Stem(fname) ==
    CASE fname = "a.txt" -> "a"
      [] fname = "b.spc" -> "b"
      [] fname = "c.csv" -> "c"
      [] OTHER -> fname

\* The strings of the model in ascending order, as Python compares them.
Ascending ==
    <<"100-200", "100-300", "200-300", "Filename", "Spectrum #",
      "X_Coordinate", "Y_Coordinate", "Z_Coordinate",
      "a.txt", "b.spc", "c.csv", "d1/a.txt", "d1/b.spc", "d2/a.txt", "d2/c.csv", "e.txt">>

Rank(str) == CHOOSE i \in 1..Len(Ascending) : Ascending[i] = str

\* The orders as given.
Unsorted(strs) == strs

\* sorted(strs)
Sorted(strs) == Take(strs, ArgSort(Tup([i \in 1..Len(strs) |-> Rank(strs[i])])))

\* The names of the files of a folder.
NamesIn(folder) == {Basename(Paths[i]) : i \in {j \in 1..Len(Paths) : Dirname(Paths[j]) = folder}}

\* os.listdir(folder): the names in an arbitrary order.
ListDirs(folder) ==
    LET names == NamesIn(folder)
        n == Cardinality(names)
    IN  {Tup(s) : s \in {t \in [1..n -> names] : \A i, j \in 1..n : t[i] = t[j] => i = j}}

\* f.lower().endswith(('.txt', '.spc'))
Supported(fname) == Extension(fname) \in {".txt", ".spc"}

RECURSIVE Filter(_)
Filter(names) ==
    IF names = <<>> THEN <<>>
    ELSE (IF Supported(names[1]) THEN <<names[1]>> ELSE <<>>) \o Filter(Tail(names))

----------------------------------------------------------------------------
(* The ranges entry.  Its text is a sequence of tokens: numerals, "," and  *)
(* ";", and "x" for anything float() does not accept.                      *)

Numerals == {"100", "200", "300"}

\* float(token) for a numeral.
FloatOf(token) ==
    CASE token = "100" -> 100
      [] token = "200" -> 200
      [] token = "300" -> 300

\* text.split(sep): the pieces between the separators.
RECURSIVE Split(_, _)
Split(text, sep) ==
    IF \A i \in 1..Len(text) : text[i] # sep THEN <<text>>
    ELSE LET i == CHOOSE k \in 1..Len(text) :
                     text[k] = sep /\ \A j \in 1..(k - 1) : text[j] # sep
         IN  <<SubSeq(text, 1, i - 1)>> \o Split(SubSeq(text, i + 1, Len(text)), sep)

\* float(field) raises on the empty string and on text that is no number.
IsFloat(field) == Len(field) = 1 /\ field[1] \in Numerals

\* rngs = [tuple(map(float, p.split(','))) for p in raw.split(';')]
ParseRanges(raw) ==
    LET parts == Split(raw, ";")
        fields(p) == Split(parts[p], ",")
    IN  IF \A p \in 1..Len(parts) : \A f \in 1..Len(fields(p)) : IsFloat(fields(p)[f])
        THEN Return(Tup([p \in 1..Len(parts) |->
                            Tup([f \in 1..Len(fields(p)) |-> FloatOf(fields(p)[f][1])])]))
        ELSE Raise("ValueError")

\* math.floor(v)
FloorOf(v) == v.n \div v.d

\* int(v) of a finite float: the fraction is dropped, rounding toward zero.
IntOf(v) == Sgn(v.n) * (Abs(v.n) \div v.d)

\* The dash of a range label, U+2013 in the program.
EnDash == "-"

\* f"{floor(xmin)}-{floor(xmax)}"
RangeLabelFloor(xmin, xmax) == ToString(FloorOf(xmin)) \o EnDash \o ToString(FloorOf(xmax))

\* f"{int(xmin)}-{int(xmax)}"
RangeLabel(xmin, xmax) == ToString(IntOf(xmin)) \o EnDash \o ToString(IntOf(xmax))

----------------------------------------------------------------------------
(* compute_areas_and_figures and compute_areas_and_figures_on_file, with   *)
(* the spectra cache and the figure cache.                                 *)
(*                                                                         *)
(* A Figure is a number; canvas[fig] tells what it shows.  The state of a  *)
(* computation is st = [cache, returned, ret, fcache, canvas, log, raised, *)
(* results, peak_results, figs, coordinates].                              *)

\* The first key of color_map that does not unpack into (xmin, xmax), or 0.
BadKey(keys) ==
    IF \A i \in 1..Len(keys) : Len(keys[i]) = 2 THEN 0
    ELSE CHOOSE i \in 1..Len(keys) : Len(keys[i]) # 2 /\ \A j \in 1..(i - 1) : Len(keys[j]) = 2

\* The ranges whose baseline and shading are drawn: those with a sample.
RECURSIVE Shaded(_, _)
Shaded(xs, keys) ==
    IF keys = <<>> THEN <<>>
    ELSE (IF Mask(xs, keys[1][1], keys[1][2]) # <<>> THEN <<keys[1]>> ELSE <<>>)
         \o Shaded(xs, Tail(keys))

\* A figure cache that never finds the name.
FigureMiss(fcache, fname) == FALSE

\* if fname in _figure_cache
FigureHit(fcache, fname) == DictHas(fcache, fname)

\* The body of the loop for a file whose spectra were read.
ProcessOne(st, fname, full_path, spectra, coords, rngs) ==
    LET hit == FigureHit(st.fcache, fname)
        fig == IF hit THEN DictGet(st.fcache, fname) ELSE Len(st.canvas) + 1
        fcache == IF hit THEN st.fcache ELSE DictSet(st.fcache, fname, fig)
        xs == spectra[1].wavenumber
        Ys == Tup([i \in 1..Len(spectra) |-> spectra[i].intensity])
        keys == Dedup(rngs)
        bad == BadKey(keys)
        drawn == Shaded(xs, IF bad = 0 THEN keys ELSE SubSeq(keys, 1, bad - 1))
        shows(title) == [title |-> title, x |-> xs, traces |-> Ys, shaded |-> drawn]
        paint(title) ==
            IF hit THEN [st.canvas EXCEPT ![fig] = shows(title)]
            ELSE Append(st.canvas, shows(title))
        begun == [st EXCEPT !.coordinates = DictSet(st.coordinates, fname, coords),
                            !.fcache = fcache]
    IN  IF bad # 0
        THEN [begun EXCEPT !.canvas = paint(""), !.raised = "ValueError"]
        ELSE [begun EXCEPT !.canvas = paint(Stem(fname)),
                           !.results = DictSet(st.results, fname, FileAreas(xs, Ys, rngs)),
                           !.figs = DictSet(st.figs, fname, fig),
                           !.log = Append(st.log, [op |-> "store", path |-> full_path])]

\* for fname in <names>: the loop of compute_areas_and_figures, until a
\* call raises.
\* The value of an expression computed once: the only element of {v}.
The(S) == CHOOSE v \in S : TRUE

RECURSIVE ComputeLoop(_, _, _, _)
ComputeLoop(st, folder, names, rngs) ==
    IF names = <<>> THEN st
    ELSE LET fname == names[1]
             full_path == Join(folder, fname)
             after(rd) == [st EXCEPT !.cache = rd.cache, !.returned = rd.returned,
                                     !.ret = rd.ret,
                                     !.log = Append(st.log, [op |-> "read",
                                                             path |-> full_path])]
         IN  The({IF read.ret.raised # "" THEN [read EXCEPT !.raised = read.ret.raised]
                  ELSE IF read.ret.val.spectra = <<>>
                  THEN ComputeLoop(read, folder, Tail(names), rngs)
                  ELSE The({IF done.raised # "" THEN done
                            ELSE ComputeLoop(done, folder, Tail(names), rngs) :
                            done \in {ProcessOne(read, fname, full_path,
                                                 read.ret.val.spectra,
                                                 read.ret.val.coords, rngs)}}) :
                  read \in {after(rd) :
                            rd \in {ReadSpectraIn([cache |-> st.cache,
                                                   returned |-> st.returned,
                                                   ret |-> st.ret], full_path)}}})

\* compute_areas_and_figures(folder, rngs) where os.listdir gave `listing`:
\* the state after the call; its four maps are the returned tuple.
compute_areas_and_figures(st, folder, listing, rngs) ==
    ComputeLoop([st EXCEPT !.results = <<>>, !.peak_results = <<>>, !.figs = <<>>,
                           !.coordinates = <<>>, !.raised = "",
                           !.log = Append(st.log, [op |-> "listdir", path |-> folder])],
                folder, Sorted(listing), rngs)

\* d.get(key, default)
Get(d, key, default) == IF DictHas(d, key) THEN DictGet(d, key) ELSE default

\* The value that stands for None.
None == 0

\* compute_areas_and_figures_on_file(path, rngs): the state after the call
\* and in val the returned tuple of four maps.
compute_areas_and_figures_on_file(st, path, listing, rngs) ==
    LET folder == Dirname(path)
        fname == Basename(path)
        only(d, default) == <<[key |-> fname, val |-> Get(d, fname, default)]>>
    IN  The({[st |-> all,
              val |-> IF all.raised # "" THEN <<>>
                      ELSE <<only(all.results, <<>>), only(all.peak_results, <<>>),
                             only(all.figs, None), only(all.coordinates, <<>>)>>] :
             all \in {compute_areas_and_figures(st, folder, listing, rngs)}})

----------------------------------------------------------------------------
(* The shell: RamanApp._run and RamanApp._preview_selection.               *)
(*                                                                         *)
(* The state of a handler is sh = [st, results, figs, coordinates,         *)
(* range_labels, shown, raised], st being the state of the computation.    *)

MaxRuns == 2       \* the user starts at most MaxRuns runs or previews
MaxCalls == 2      \* a caller makes at most MaxCalls calls of the computing functions

\* The texts of the ranges entry: a range, a range with min > max, one with
\* min = max, text that is no number, a single number, two ranges.
RawTexts ==
    {<<"100", ",", "300">>, <<"300", ",", "100">>, <<"200", ",", "200">>,
     <<"100", ",", "x">>, <<"100">>,
     <<"100", ",", "200", ";", "200", ",", "300">>}

\* What the user selects: files, or a folder with or without recursion.
Selections ==
    {[file_paths |-> <<"d2/a.txt", "d1/b.spc">>, folder |-> "", recursive |-> FALSE],
     [file_paths |-> <<>>, folder |-> "", recursive |-> FALSE],
     [file_paths |-> <<>>, folder |-> "d1", recursive |-> FALSE],
     [file_paths |-> <<>>, folder |-> "d2", recursive |-> TRUE]}

\* What os.listdir gives for each folder during one handler or call.
Listings == {ld \in [Folders -> UNION {ListDirs(fo) : fo \in Folders}] :
                \A fo \in Folders : ld[fo] \in ListDirs(fo)}

\* os.path.isdir(folder)
IsDir(folder) == folder \in Folders

JoinAll(folder, names) == Tup([i \in 1..Len(names) |-> Join(folder, names[i])])

\* "figure out what the user picked": the inputs, and whether there are any
\* to find.
Inputs(sel, ld) ==
    IF sel.file_paths # <<>>
    THEN [ok |-> TRUE, inputs |-> sel.file_paths, log |-> <<>>]
    ELSE IF sel.folder = "" \/ ~IsDir(sel.folder)
    THEN [ok |-> FALSE, inputs |-> <<>>, log |-> <<>>]
    ELSE [ok |-> TRUE,
          inputs |-> IF sel.recursive
                     THEN Sorted(JoinAll(sel.folder, Filter(ld[sel.folder])))
                     ELSE JoinAll(sel.folder, Filter(Sorted(ld[sel.folder]))),
          log |-> <<[op |-> "listdir", path |-> sel.folder]>>]

\* self.<map>.update(d)
RECURSIVE Update(_, _)
Update(map, d) ==
    IF d = <<>> THEN map
    ELSE Update(DictSet(map, d[1].key, d[1].val), Tail(d))

\* The number of names on the left of
\*     results, figs, coords = compute_areas_and_figures_on_file(p, rngs)
Targets == 3

\* for p in inputs: ..., the loop of _run and of _preview_selection.
RECURSIVE FileLoop(_, _, _, _)
FileLoop(sh, inputs, rngs, ld) ==
    IF inputs = <<>> THEN sh
    ELSE The({IF r.st.raised # "" THEN [sh EXCEPT !.st = r.st, !.raised = r.st.raised]
              ELSE IF Len(r.val) # Targets
              THEN [sh EXCEPT !.st = r.st, !.raised = "ValueError"]
              ELSE FileLoop([sh EXCEPT !.st = r.st,
                                       !.results = Update(sh.results, r.val[1]),
                                       !.figs = Update(sh.figs, r.val[2]),
                                       !.coordinates = Update(sh.coordinates, r.val[3])],
                            Tail(inputs), rngs, ld) :
              r \in {compute_areas_and_figures_on_file(sh.st, inputs[1],
                                                       ld[Dirname(inputs[1])], rngs)}})

\* self.range_labels = [f"{int(r[0])}-{int(r[1])}" for r in rngs]
Labels(rngs) == Tup([i \in 1..Len(rngs) |-> RangeLabel(F(rngs[i][1]), F(rngs[i][2]))])

\* The bounds of the label model: the multiples of 1/2 from -MaxHalves/2 to
\* MaxHalves/2.
MaxHalves == 6

Bounds == {Fin(n, 2) : n \in (-MaxHalves)..MaxHalves}

InitLabels ==
    /\ ComputeIdle
    /\ TableIdle
    /\ FilesIdle

\* The label of one parsed range (lines 534 of _run and 363, 370 of
\* _export_results).
MakeLabel(xmin, xmax) ==
    /\ ranges = <<>>
    /\ ranges' = <<<<xmin, xmax>>>>
    /\ range_labels' = <<RangeLabel(xmin, xmax)>>
    /\ UNCHANGED <<x, Y, peaks, file_areas, file_peaks, ipc, tableVars,
                   files, _spectra_cache, returned, ret, fop,
                   _figure_cache, canvas, call, log, held, ncalls,
                   results, figs, coordinates, ranges_entry, selection, shown, raised>>

NextLabels == \E xmin \in Bounds, xmax \in Bounds : MakeLabel(xmin, xmax)

SpecLabels == InitLabels /\ [][NextLabels]_vars

\* _run, from the handler state sh with results and figs reset.
_run(sh, raw, sel, ld) ==
    The({IF parsed.raised # ""
         THEN [sh EXCEPT !.shown = "Invalid range format."]
         ELSE IF \E i \in 1..Len(parsed.val) : Len(parsed.val[i]) < 2
         THEN [sh EXCEPT !.raised = "IndexError"]
         ELSE The({IF ~inp.ok
                   THEN [labelled EXCEPT !.shown = "Please select a valid folder or files."]
                   ELSE IF inp.inputs = <<>>
                   THEN [labelled EXCEPT !.st.log = inp.log,
                                         !.shown = "No spectra found to process."]
                   ELSE FileLoop([labelled EXCEPT !.st.log = inp.log],
                                 inp.inputs, parsed.val, ld) :
                   labelled \in {[sh EXCEPT !.range_labels = Labels(parsed.val)]},
                   inp \in {Inputs(sel, ld)}}) :
         parsed \in {ParseRanges(raw)}})

\* _preview_selection, from the handler state sh with results and figs reset.
_preview_selection(sh, sel, ld) ==
    The({IF ~inp.ok THEN sh
         ELSE FileLoop([sh EXCEPT !.st.log = inp.log], inp.inputs, <<>>, ld) :
         inp \in {Inputs(sel, ld)}})

\* The state of the computation at the start of a call.
St ==
    [cache |-> _spectra_cache, returned |-> returned, ret |-> ret,
     fcache |-> _figure_cache, canvas |-> canvas, log |-> <<>>, raised |-> "",
     results |-> <<>>, peak_results |-> <<>>, figs |-> <<>>, coordinates |-> <<>>]

\* The state of a handler after its clean-up: self.results = {}, self.figs = {}.
Sh ==
    [st |-> St, results |-> <<>>, figs |-> <<>>, coordinates |-> coordinates,
     range_labels |-> range_labels, shown |-> "", raised |-> ""]

\* What a file of the two folders may hold: a map of two pixels, a map of
\* one pixel, or a single spectrum.
TreeContentsOf(path) ==
    CASE Extension(path) = ".txt" -> {MapLines(1, 2), MapLines(1, 1), SingleLines(2)}
      [] Extension(path) = ".spc" -> {SingleLines(3)}
      [] OTHER -> {SingleLines(2)}

InitRun ==
    /\ ComputeIdle
    /\ TableIdle
    /\ files \in {f \in [{Paths[i] : i \in 1..Len(Paths)} ->
                              UNION {TreeContentsOf(Paths[i]) : i \in 1..Len(Paths)}] :
                     \A p \in DOMAIN f : f[p] \in TreeContentsOf(p)}
    /\ _spectra_cache = <<>>
    /\ returned = <<>>
    /\ ret = NoRead
    /\ fop = "none"
    /\ ShellIdle

\* What a computation leaves in the caches.
Computed(st) ==
    /\ _spectra_cache' = st.cache
    /\ returned' = st.returned
    /\ ret' = st.ret
    /\ _figure_cache' = st.fcache
    /\ canvas' = st.canvas
    /\ log' = st.log

\* What a handler leaves in the shell.
Handled(sh) ==
    /\ Computed(sh.st)
    /\ results' = sh.results
    /\ figs' = sh.figs
    /\ coordinates' = sh.coordinates
    /\ range_labels' = sh.range_labels
    /\ shown' = sh.shown
    /\ raised' = sh.raised

\* The user fills in the entries and presses Run.
Run(raw, sel) ==
    \E ld \in Listings : \E sh \in {_run(Sh, raw, sel, ld)} :
        /\ Handled(sh)
        /\ ncalls' = ncalls + 1
        /\ ranges_entry' = raw
        /\ selection' = sel
        /\ fop' = "run"
        /\ UNCHANGED <<files, call, held, intVars, tableVars>>

\* The user selects files or a folder and asks for the preview.
Preview(sel) ==
    \E ld \in Listings : \E sh \in {_preview_selection(Sh, sel, ld)} :
        /\ Handled(sh)
        /\ ncalls' = ncalls + 1
        /\ selection' = sel
        /\ fop' = "preview"
        /\ UNCHANGED <<files, call, held, ranges_entry, intVars, tableVars>>

\* The ranges a caller passes: what the entry's texts of two-sided ranges
\* parse to.
RangeArgs ==
    {rngs \in {ParseRanges(raw).val : raw \in {t \in RawTexts : ParseRanges(t).raised = ""}} :
        \A i \in 1..Len(rngs) : Len(rngs[i]) = 2}

\* A call of compute_areas_and_figures(folder, rngs).
ComputeAreasAndFigures(folder, rngs) ==
    \E listing \in ListDirs(folder) :
        \E st \in {compute_areas_and_figures(St, folder, listing, rngs)} :
            /\ Computed(st)
            /\ call' = [op |-> "compute", path |-> folder, ranges |-> rngs,
                        raised |-> st.raised,
                        val |-> IF st.raised # "" THEN <<>>
                                ELSE <<st.results, st.peak_results, st.figs,
                                       st.coordinates>>]
            /\ ncalls' = ncalls + 1
            /\ fop' = "compute"
            /\ UNCHANGED <<files, held, results, figs, coordinates, range_labels,
                           ranges_entry, selection, shown, raised, intVars, tableVars>>

\* A call of compute_areas_and_figures_on_file(path, rngs); the caller keeps
\* what it returned.
ComputeAreasOnFile(path, rngs) ==
    \E listing \in ListDirs(Dirname(path)) :
        \E r \in {compute_areas_and_figures_on_file(St, path, listing, rngs)} :
            /\ Computed(r.st)
            /\ call' = [op |-> "on_file", path |-> path, ranges |-> rngs,
                        raised |-> r.st.raised, val |-> r.val]
            /\ held' = IF r.st.raised # "" THEN held
                       ELSE DictSet(held, path, r.val[3][1].val)
            /\ ncalls' = ncalls + 1
            /\ fop' = "on_file"
            /\ UNCHANGED <<files, results, figs, coordinates, range_labels,
                           ranges_entry, selection, shown, raised, intVars, tableVars>>

\* The user at the shell.
NextRun ==
    /\ ncalls < MaxRuns
    /\ \/ \E raw \in RawTexts, sel \in Selections : Run(raw, sel)
       \/ \E sel \in Selections : Preview(sel)

SpecRun == InitRun /\ [][NextRun]_vars

\* A call of read_spectra(path) for a file of the two folders.
ReadSpectraOf(path) ==
    \E st \in {ReadSpectraIn([cache |-> _spectra_cache, returned |-> returned, ret |-> ret],
                              path)} :
        /\ _spectra_cache' = st.cache
        /\ returned' = st.returned
        /\ ret' = st.ret
        /\ log' = <<[op |-> "read", path |-> path]>>
        /\ ncalls' = ncalls + 1
        /\ fop' = "read"
        /\ UNCHANGED <<files, _figure_cache, canvas, call, held, results, figs, coordinates,
                       range_labels, ranges_entry, selection, shown, raised,
                       intVars, tableVars>>

\* A caller of the computing functions.
NextCalls ==
    /\ ncalls < MaxCalls
    /\ \/ \E fo \in Folders, rngs \in RangeArgs : ComputeAreasAndFigures(fo, rngs)
       \/ \E i \in 1..Len(Paths), rngs \in RangeArgs : ComputeAreasOnFile(Paths[i], rngs)
       \/ \E i \in 1..Len(Paths) : ReadSpectraOf(Paths[i])

SpecCalls == InitRun /\ [][NextCalls]_vars

----------------------------------------------------------------------------
(* The export: RamanApp._export_results, steps 1, 2 and 4.                 *)
(*                                                                         *)
(* A cell of a DataFrame is [t, s, v]: a string, a number or NaN (a        *)
(* missing value).  A row of step 1 is an ordered dict, a DataFrame an     *)
(* ordered dict column name -> column of cells.                            *)

Str(s) == [t |-> "str", s |-> s, v |-> F(0)]

Missing == [t |-> "nan", s |-> "", v |-> NaN]

Num(v) == IF IsNaN(v) THEN Missing ELSE [t |-> "num", s |-> "", v |-> v]

IsMissing(c) == c.t = "nan"

\* multi_spec = any(isinstance(v, list) and len(v) > 1 for v in areas.values())
MultiSpec(areas) == \E k \in 1..Len(areas) : Len(areas[k].val) > 1

\* n = max(len(v) for v in areas.values())
MaxLen(areas) ==
    CHOOSE n \in {Len(areas[k].val) : k \in 1..Len(areas)} :
        \A k \in 1..Len(areas) : Len(areas[k].val) <= n

coord_names == <<"X_Coordinate", "Y_Coordinate", "Z_Coordinate">>

\* for dim, cval in enumerate(coords[idx]): if dim < len(coord_names): row[...] = cval
RECURSIVE WithCoords(_, _, _)
WithCoords(row, coord, dim) ==
    IF dim > Len(coord) \/ dim > Len(coord_names) THEN row
    ELSE WithCoords(DictSet(row, coord_names[dim], Num(F(coord[dim]))), coord, dim + 1)

\* for (xmin, xmax), vals in areas.items(): row[key] = float(vals[idx]) if
\* idx < len(vals) else 0.0
RECURSIVE WithAreas(_, _, _)
WithAreas(row, areas, idx) ==
    IF areas = <<>> THEN row
    ELSE LET key == RangeLabel(areas[1].key[1], areas[1].key[2])
             vals == areas[1].val
         IN  WithAreas(DictSet(row, key, IF idx <= Len(vals) THEN Num(vals[idx]) ELSE Num(F(0))),
                       Tail(areas), idx)

\* The row of pixel idx (counted from 1) of a file with several spectra.
MapRow(fname, areas, coords, idx) ==
    LET row == <<[key |-> "Filename", val |-> Str(fname)],
                 [key |-> "Spectrum #", val |-> Num(F(idx))]>>
    IN  WithAreas(IF Len(coords) > 0 /\ idx <= Len(coords)
                  THEN WithCoords(row, coords[idx], 1) ELSE row,
                  areas, idx)

\* The row of a single file carrying a number of its own.
SingleRowNumbered(fname, areas) ==
    WithAreas(<<[key |-> "Filename", val |-> Str(fname)],
                [key |-> "Spectrum #", val |-> Num(F(Rank(fname)))]>>, areas, 1)

\* The row of a single-spectrum file.
SingleRow(fname, areas) ==
    WithAreas(<<[key |-> "Filename", val |-> Str(fname)]>>, areas, 1)

\* Step 1: rows, for the entries of self.results in their order.
RECURSIVE BuildRows(_, _)
BuildRows(res, coordmap) ==
    IF res = <<>> THEN <<>>
    ELSE LET fname == res[1].key
             areas == res[1].val
             coords == Get(coordmap, fname, <<>>)
         IN  (IF MultiSpec(areas)
              THEN Tup([idx \in 1..MaxLen(areas) |-> MapRow(fname, areas, coords, idx)])
              ELSE <<SingleRow(fname, areas)>>)
             \o BuildRows(Tail(res), coordmap)

Range(s) == {s[i] : i \in 1..Len(s)}

\* [c for c in cols if c in keep]
RECURSIVE Only(_, _)
Only(cols, keep) ==
    IF cols = <<>> THEN <<>>
    ELSE (IF cols[1] \in keep THEN <<cols[1]>> ELSE <<>>) \o Only(Tail(cols), keep)

\* The keys of the rows in the order of their first appearance.
RECURSIVE ColumnsOf(_)
ColumnsOf(rows) ==
    IF rows = <<>> THEN <<>>
    ELSE LET front == ColumnsOf(SubSeq(rows, 1, Len(rows) - 1))
             keys == Tup(DictKeys(rows[Len(rows)]))
         IN  front \o Only(keys, Range(keys) \ Range(front))

\* pd.DataFrame(rows): the columns in the order of their first appearance,
\* NaN where a row has no value.
DataFrame(rows) ==
    LET cols == ColumnsOf(rows)
    IN  Tup([j \in 1..Len(cols) |->
                [key |-> cols[j],
                 val |-> Tup([i \in 1..Len(rows) |-> Get(rows[i], cols[j], Missing)])]])

\* a < b for two cells of an index column.
CellLess(a, b) ==
    IF a.t = "str" /\ b.t = "str" THEN Rank(a.s) < Rank(b.s) ELSE VLess(a.v, b.v)

\* Lexicographic order of two index keys.
RECURSIVE KeyLess(_, _)
KeyLess(a, b) ==
    IF a = <<>> THEN FALSE
    ELSE IF a[1] = b[1] THEN KeyLess(Tail(a), Tail(b))
    ELSE CellLess(a[1], b[1])

\* df.pivot_table(index=index_cols, values=value_cols, aggfunc="first")
\* .reset_index(): the rows are grouped by their index key, rows with NaN in
\* the key dropped; the groups come in ascending key order, each value the
\* first one of the group that is not NaN; groups and value columns holding
\* nothing but NaN are dropped and the value columns sorted by name.
pivot_table(df, index_cols, value_cols) ==
    LET n == IF df = <<>> THEN 0 ELSE Len(df[1].val)
        keyOf(i) == Tup([k \in 1..Len(index_cols) |-> DictGet(df, index_cols[k])[i]])
        kept == {i \in 1..n : \A k \in 1..Len(index_cols) : ~IsMissing(keyOf(i)[k])}
        keys == {keyOf(i) : i \in kept}
        first(key, col) ==
            LET hits == {i \in kept : keyOf(i) = key /\ ~IsMissing(DictGet(df, col)[i])}
            IN  IF hits = {} THEN Missing
                ELSE DictGet(df, col)[CHOOSE i \in hits : \A j \in hits : i <= j]
        full == {key \in keys : \E c \in Range(value_cols) : ~IsMissing(first(key, c))}
        order == Tup([r \in 1..Cardinality(full) |->
                         CHOOSE key \in full :
                             Cardinality({other \in full : KeyLess(other, key)}) = r - 1])
        values == Only(Sorted(value_cols),
                       {c \in Range(value_cols) : \E key \in full : ~IsMissing(first(key, c))})
    IN  Tup([k \in 1..Len(index_cols) |->
                [key |-> index_cols[k],
                 val |-> Tup([r \in 1..Len(order) |-> order[r][k]])]])
        \o Tup([c \in 1..Len(values) |->
                   [key |-> values[c],
                    val |-> Tup([r \in 1..Len(order) |-> first(order[r], values[c])])]])

\* wide[col].nunique()
NUnique(column) == Cardinality({column[i] : i \in {j \in 1..Len(column) : ~IsMissing(column[j])}})

\* "Spectrum #" is dropped whatever it holds.
DropAlways(column) == TRUE

\* wide["Spectrum #"].nunique() == 1
Redundant(column) == NUnique(column) = 1

\* Step 4: drop redundant Spectrum #.
DropSpectrumNo(table) ==
    IF DictHas(table, "Spectrum #") /\ Redundant(DictGet(table, "Spectrum #"))
    THEN Tup([j \in 1..(Len(table) - 1) |->
                 IF j < (CHOOSE k \in 1..Len(table) : table[k].key = "Spectrum #")
                 THEN table[j] ELSE table[j + 1]])
    ELSE table

\* base_cols: the value columns of df, in its column order, that are no
\* coordinate columns; formula reference k is base_cols[k].
base_cols(res, coordmap) ==
    LET cols == ColumnsOf(BuildRows(res, coordmap))
        coord_cols == Only(coord_names, Range(cols))
        index_cols == <<"Filename">>
                      \o (IF "Spectrum #" \in Range(cols) THEN <<"Spectrum #">> ELSE <<>>)
                      \o coord_cols
        value_cols == Only(cols, Range(cols) \ Range(index_cols))
    IN  Only(value_cols, Range(value_cols) \ Range(coord_names))

\* Steps 1, 2 and 4 of _export_results: the table of the Integration sheet.
IntegrationSheet(res, coordmap) ==
    LET df == DataFrame(BuildRows(res, coordmap))
        cols == DictKeys(df)
        coord_cols == Only(coord_names, Range(cols))
        index_cols == <<"Filename">>
                      \o (IF "Spectrum #" \in Range(cols) THEN <<"Spectrum #">> ELSE <<>>)
                      \o coord_cols
        value_cols == Only(cols, Range(cols) \ Range(index_cols))
    IN  DropSpectrumNo(pivot_table(df, index_cols, value_cols))

\* The files of an export.
ExportNames == <<"a.txt", "b.spc", "e.txt">>

\* What a file brings to the export: nothing, one spectrum, or a map of n
\* pixels with C coordinates each.
Shapes(fname) ==
    {[n |-> 0, C |-> 0], [n |-> 1, C |-> 0]}
    \cup (IF Extension(fname) = ".spc" THEN {}
          ELSE {[n |-> n, C |-> C] : n \in 2..MaxMapRows, C \in 0..MaxCoords})

\* The ranges of a run, their bounds floats.
ExportRanges ==
    {<<<<F(100), F(200)>>>>, <<<<F(100), F(200)>>, <<F(200), F(300)>>>>,
     <<<<F(200), F(300)>>, <<F(100), F(300)>>>>}

\* Ranges of one run with bounds that are no whole numbers: 100.5 is
\* Fin(201, 2), 200.5 is Fin(401, 2).
ColumnRanges ==
    {<<<<F(100), F(200)>>, <<Fin(201, 2), F(200)>>>>,
     <<<<Fin(201, 2), F(200)>>, <<F(200), F(300)>>>>,
     <<<<F(200), F(300)>>, <<F(100), F(200)>>, <<Fin(401, 2), F(300)>>>>}

\* A digit for a bound: its hundreds, and 5 more when it is no whole number.
Hundreds(b) == (b.n \div (100 * b.d)) + (IF b.d = 1 THEN 0 ELSE 5)

\* The area of pixel i of the j-th file over the range r: every cell of an
\* export holds a different number.
AreaOf(j, i, r) == F(1000 * j + 10 * i + Hundreds(r[1]) + Hundreds(r[2]) * 100)

\* results and coordinates as compute_areas_and_figures returns them for
\* files of the given shapes.
RECURSIVE ResultsOf(_, _, _)
ResultsOf(shape, rngs, j) ==
    IF j > Len(ExportNames) THEN <<>>
    ELSE (IF shape[j].n = 0 THEN <<>>
          ELSE <<[key |-> ExportNames[j],
                  val |-> Tup([k \in 1..Len(rngs) |->
                                  [key |-> rngs[k],
                                   val |-> Tup([i \in 1..shape[j].n |->
                                                   AreaOf(j, i, rngs[k])])]])]>>)
         \o ResultsOf(shape, rngs, j + 1)

RECURSIVE CoordinatesOf(_, _)
CoordinatesOf(shape, j) ==
    IF j > Len(ExportNames) THEN <<>>
    ELSE (IF shape[j].n = 0 THEN <<>>
          ELSE <<[key |-> ExportNames[j],
                  val |-> IF shape[j].n = 1 THEN <<>>
                          ELSE Tup([i \in 1..shape[j].n |->
                                       Tup([d \in 1..shape[j].C |-> Cell(i, d)])])]>>)
         \o CoordinatesOf(shape, j + 1)

InitExportOver(rangeLists) ==
    /\ ComputeIdle
    /\ TableIdle
    /\ files = <<>> /\ _spectra_cache = <<>> /\ returned = <<>>
    /\ ret = NoRead /\ fop = "none"
    /\ _figure_cache = <<>> /\ canvas = <<>> /\ call = NoCompute /\ log = <<>>
    /\ held = <<>> /\ ncalls = 0
    /\ \E shape \in [1..Len(ExportNames) -> UNION {Shapes(ExportNames[j]) : j \in 1..Len(ExportNames)}],
          rngs \in rangeLists :
          /\ \A j \in 1..Len(ExportNames) : shape[j] \in Shapes(ExportNames[j])
          /\ results = ResultsOf(shape, rngs, 1)
          /\ coordinates = CoordinatesOf(shape, 1)
    /\ figs = <<>> /\ range_labels = <<>>
    /\ ranges_entry = <<>> /\ selection = NoSelection
    /\ shown = "" /\ raised = ""

InitExport == InitExportOver(ExportRanges)

InitColumns == InitExportOver(ColumnRanges)

\* _export_results with the ratio and math entries left empty.
ExportSheet ==
    /\ fop = "none"
    /\ fop' = "export"
    /\ IF results = <<>>
       THEN /\ shown' = "No results to export."
            /\ UNCHANGED wide
       ELSE /\ wide' = IntegrationSheet(results, coordinates)
            /\ UNCHANGED shown
    /\ UNCHANGED <<tcall, out, ratio_df, math_df, intVars,
                   files, _spectra_cache, returned, ret,
                   _figure_cache, canvas, call, log, held, ncalls,
                   results, figs, coordinates, range_labels, ranges_entry, selection, raised>>

NextExport == ExportSheet

SpecExport == InitExport /\ [][NextExport]_vars

NextColumns == ExportSheet

SpecColumns == InitColumns /\ [][NextColumns]_vars

----------------------------------------------------------------------------
(* Properties of the shell and of the computing functions.                 *)

\* The entry's text parses and holds a range (min, max) with min >= max.
HoldsEmptyRange(raw) ==
    /\ ParseRanges(raw).raised = ""
    /\ \E i \in 1..Len(ParseRanges(raw).val) :
          LET r == ParseRanges(raw).val[i]
          IN  Len(r) = 2 /\ r[1] >= r[2]

\* C11 as stated: a run whose ranges text does not parse, or holds a range
\* with min >= max, ends with an error shown before any directory was
\* listed or file read, so that nothing was integrated.
BadRangesRejectedBeforeIO ==
    (fop = "run" /\ (ParseRanges(ranges_entry).raised # "" \/ HoldsEmptyRange(ranges_entry)))
        => (shown # "" /\ raised = "" /\ log = <<>>)

\* The cell of the wide table at a column and a row; NaN without the column.
WideCell(col, r) == IF DictHas(wide, col) THEN DictGet(wide, col)[r] ELSE Missing

\* The rows of the wide table that carry the file's name.
FileRows(fname) ==
    {r \in 1..Len(DictGet(wide, "Filename")) : WideCell("Filename", r) = Str(fname)}

\* The number of pixels of a file of the results.
Pixels(areas) == Len(areas[1].val)

\* Row r holds the value of pixel i for every range.
HoldsAreas(areas, i, r) ==
    \A k \in 1..Len(areas) :
        WideCell(RangeLabel(areas[k].key[1], areas[k].key[2]), r) = Num(areas[k].val[i])

\* Row r is the row of pixel i of a map: its index, coordinates and values.
IsPixelRow(areas, coords, i, r) ==
    /\ WideCell("Spectrum #", r) = Num(F(i))
    /\ \A d \in 1..Len(coords[i]) :
          d <= Len(coord_names) => WideCell(coord_names[d], r) = Num(F(coords[i][d]))
    /\ HoldsAreas(areas, i, r)

\* Row r is the row of a single-spectrum file: no coordinates, its values.
IsFileRow(areas, r) ==
    /\ \A d \in 1..Len(coord_names) : IsMissing(WideCell(coord_names[d], r))
    /\ HoldsAreas(areas, 1, r)

\* C12 as stated: in the exported table a file with n > 1 pixels has exactly
\* n rows, row i with pixel i's index, coordinates and values for every
\* range; a single-pixel file has exactly one row, without coordinates; all
\* of these rows are in the wide table after the pivot.
EveryPixelHasItsRow ==
    (fop = "export" /\ results # <<>>) =>
        \A e \in 1..Len(results) :
            LET fname == results[e].key
                areas == results[e].val
                coords == Get(coordinates, fname, <<>>)
            IN  /\ Cardinality(FileRows(fname)) = Pixels(areas)
                /\ Pixels(areas) > 1 =>
                      \A i \in 1..Pixels(areas) :
                          \E r \in FileRows(fname) : IsPixelRow(areas, coords, i, r)
                /\ Pixels(areas) = 1 =>
                      \A r \in FileRows(fname) : IsFileRow(areas, r)

\* C13: the wide table has a "Spectrum #" column only when some file of the
\* export has more than one pixel; it has none when every file has exactly
\* one pixel.
SpectrumNoOnlyWithMaps ==
    (fop = "export" /\ results # <<>>) =>
        /\ DictHas(wide, "Spectrum #") => \E e \in 1..Len(results) : Pixels(results[e].val) > 1
        /\ (\A e \in 1..Len(results) : Pixels(results[e].val) = 1) => ~DictHas(wide, "Spectrum #")

\* C13 witness: an export of several single-spectrum files: every file has
\* its row and the table has no "Spectrum #" column.
SingleFilesExported ==
    /\ fop = "export"
    /\ Len(results) > 1
    /\ \A e \in 1..Len(results) :
          /\ Pixels(results[e].val) = 1
          /\ Cardinality(FileRows(results[e].key)) = 1
    /\ ~DictHas(wide, "Spectrum #")

\* The four maps a compute_areas_and_figures call returned have no entry
\* for the name.
InNoMap(val, fname) == \A k \in 1..4 : ~DictHas(val[k], fname)

\* C14: read_spectra of a path whose extension is neither .txt nor .spc
\* returns ([], []) without opening the file and without raising, and
\* compute_areas_and_figures gives such a file no entry in any of the four
\* maps it returns.
UnsupportedFileSkipped ==
    /\ (ret.path # "" /\ Extension(ret.path) \notin {".txt", ".spc"}) =>
          /\ ret.raised = ""
          /\ ret.val = [spectra |-> <<>>, coords |-> <<>>]
          /\ ~ret.opened
    /\ (call.op = "compute" /\ call.raised = "") =>
          \A fname \in NamesIn(call.path) :
              Extension(fname) \notin {".txt", ".spc"} => InNoMap(call.val, fname)

\* C14 witness: a call over the folder d2 that read c.csv last, cached the
\* empty result and returned maps holding a.txt alone.
CsvReadAndSkipped ==
    /\ fop = "compute"
    /\ call.path = "d2"
    /\ call.raised = ""
    /\ ret.path = "d2/c.csv"
    /\ ~ret.opened
    /\ DictHas(_spectra_cache, "d2/c.csv")
    /\ DictKeys(call.val[1]) = <<"a.txt">>
    /\ DictKeys(call.val[4]) = <<"a.txt">>

\* The events of the log of one kind.
RECURSIVE Events(_, _)
Events(l, op) ==
    IF l = <<>> THEN <<>>
    ELSE (IF l[1].op = op THEN <<l[1].path>> ELSE <<>>) \o Events(Tail(l), op)

\* The paths come in strictly ascending order of their file names.
AscendingNames(paths) ==
    \A i \in 1..(Len(paths) - 1) : Rank(Basename(paths[i])) < Rank(Basename(paths[i + 1]))

\* A file's results are stored right after its read, before the next file
\* is read.
OneAtATime(l) ==
    \A i \in 1..Len(l) :
        l[i].op = "store" => (i > 1 /\ l[i - 1].op = "read" /\ l[i - 1].path = l[i].path)

\* The same handler is run again on the same entries.
SameRunAgain ==
    /\ fop \in {"run", "preview"}
    /\ fop' = fop
    /\ ranges_entry' = ranges_entry
    /\ selection' = selection

\* C16: within one run the files are read one at a time in ascending name
\* order and their results stored in that order; two runs over the same
\* inputs go through the same sequence.
FilesProcessedInNameOrder ==
    /\ [](/\ AscendingNames(Events(log, "read"))
          /\ AscendingNames(Events(log, "store"))
          /\ OneAtATime(log))
    /\ [][SameRunAgain => log' = log]_vars

\* C16 witness: the second handler is a run that read the two files of d1
\* and stored the results of both, a.txt first.
TwoFilesInOrder ==
    /\ fop = "run"
    /\ ncalls = 2
    /\ Events(log, "read") = <<"d1/a.txt", "d1/b.spc">>
    /\ Events(log, "store") = <<"d1/a.txt", "d1/b.spc">>

\* The integer t is v with its fraction dropped: it has the sign of v (or
\* is 0) and |t| <= |v| < |t| + 1.
IsTruncationOf(t, v) ==
    /\ t * v.n >= 0
    /\ Abs(t) * v.d <= Abs(v.n)
    /\ Abs(v.n) < (Abs(t) + 1) * v.d

\* C17 as stated: the column name of the range (min, max) is floor(min),
\* an en-dash, floor(max), for every pair of bounds.
LabelIsFloorOfBounds ==
    \A i \in 1..Len(range_labels) :
        range_labels[i] = RangeLabelFloor(ranges[i][1], ranges[i][2])

\* C17: the column name of the range (min, max) is int(min), an en-dash,
\* int(max), the bounds truncated toward zero; this is floor(min), en-dash,
\* floor(max) when both bounds are non-negative or whole numbers.
LabelIsTruncationOfBounds ==
    \A i \in 1..Len(range_labels) :
        LET lo == ranges[i][1]
            hi == ranges[i][2]
        IN  /\ \E s \in (-MaxHalves)..MaxHalves, t \in (-MaxHalves)..MaxHalves :
                  /\ IsTruncationOf(s, lo)
                  /\ IsTruncationOf(t, hi)
                  /\ range_labels[i] = ToString(s) \o EnDash \o ToString(t)
            /\ (\A v \in {lo, hi} : v.n >= 0 \/ v.d = 1) =>
                  range_labels[i] = RangeLabelFloor(lo, hi)

\* C17 witness: the label of a range whose lower bound is -3/2.
NegativeFractionLabelled ==
    /\ range_labels # <<>>
    /\ ranges[1][1] = Fin(-3, 2)
    /\ ranges[1][2] = Fin(5, 2)
    /\ range_labels[1] = "-1-2"

\* The entry holds valid ranges: it parses, and every range is a pair with
\* min < max.
ValidRanges(raw) ==
    /\ ParseRanges(raw).raised = ""
    /\ \A i \in 1..Len(ParseRanges(raw).val) :
          LET r == ParseRanges(raw).val[i]
          IN  Len(r) = 2 /\ r[1] < r[2]

\* The file at path can be parsed.
Parses(path) == ParseFile(path, files[path]).raised = ""

\* The input files of the selection (their order set aside).
InputsOf(sel) ==
    LET inp == Inputs(sel, CHOOSE ld \in Listings : TRUE)
    IN  {inp.inputs[i] : i \in 1..Len(inp.inputs)}

\* C18 as stated: a run over a non-empty list of supported input files that
\* can all be parsed, with valid ranges, completes without raising, and the
\* shell then holds the areas, the figure and the coordinates of every input
\* file.
RunHoldsEveryInput ==
    (/\ fop = "run"
     /\ ValidRanges(ranges_entry)
     /\ InputsOf(selection) # {}
     /\ \A i \in 1..Len(Paths) : Parses(Paths[i]))
        => /\ raised = ""
           /\ \A p \in InputsOf(selection) :
                 /\ DictHas(results, Basename(p))
                 /\ DictHas(figs, Basename(p))
                 /\ DictHas(coordinates, Basename(p))

\* The intensities of the spectra read from path, as the cache holds them.
OwnTraces(path) ==
    LET spectra == DictGet(_spectra_cache, path).spectra
    IN  Tup([i \in 1..Len(spectra) |-> spectra[i].intensity])

\* C19 as stated: the figure returned for an input path keeps showing the
\* spectra of that path, whatever other paths are processed afterwards, also
\* when another directory holds a file of the same name.
EachPathKeepsItsOwnFigure ==
    \A i \in 1..Len(held) :
        held[i].val # None =>
            /\ DictHas(_spectra_cache, held[i].key)
            /\ canvas[held[i].val].traces = OwnTraces(held[i].key)

\* The step is a call of compute_areas_and_figures_on_file.
OnFileCalled == ncalls' = ncalls + 1 /\ fop' = "on_file"

\* The entry of key in the dict d, or <<>> when there is none.
EntryOf(d, key) == IF DictHas(d, key) THEN <<DictGet(d, key)>> ELSE <<>>

\* What the Figure cached under fname shows, or <<>> when there is none.
ShownFor(fc, cv, fname) == IF DictHas(fc, fname) THEN <<cv[DictGet(fc, fname)]>> ELSE <<>>

\* C20 as stated: compute_areas_and_figures_on_file(path, ranges) reads only
\* the file at path, leaves the spectra-cache and figure-cache entries of the
\* other files of the directory as they were, and does not fail because a
\* sibling file cannot be parsed.
OnFileTouchesOnlyItsFile ==
    [][OnFileCalled =>
          /\ \A i \in 1..Len(Events(log', "read")) : Events(log', "read")[i] = call'.path
          /\ \A i \in 1..Len(Paths) :
                Paths[i] # call'.path =>
                    /\ EntryOf(_spectra_cache', Paths[i]) = EntryOf(_spectra_cache, Paths[i])
                    /\ Basename(Paths[i]) # Basename(call'.path) =>
                          ShownFor(_figure_cache', canvas', Basename(Paths[i]))
                              = ShownFor(_figure_cache, canvas, Basename(Paths[i]))
          /\ Parses(call'.path) => call'.raised = ""]_vars

\* The ranges supplied to the run whose results are exported.
SuppliedRanges == Tup([k \in 1..Len(results[1].val) |-> results[1].val[k].key])

\* The areas the results hold for the k-th range.
AreasOfRange(k) ==
    UNION {{Num(results[f].val[k].val[i]) : i \in 1..Len(results[f].val[k].val)} :
              f \in 1..Len(results)}

\* C21 as stated: the exported table has one value column for each of the
\* distinct ranges of the run, formula reference k is the column of the k-th
\* supplied range, and that column holds areas of this range only, also when
\* two ranges have bounds that truncate to the same integers.
DistinctRangesKeepTheirColumns ==
    (fop = "export" /\ results # <<>>) =>
        LET base == base_cols(results, coordinates)
            rngs == SuppliedRanges
        IN  /\ Len(base) = Cardinality(Range(rngs))
            /\ \A k \in 1..Len(rngs) :
                  /\ k <= Len(base)
                  /\ base[k] = RangeLabel(rngs[k][1], rngs[k][2])
                  /\ \A r \in 1..Len(DictGet(wide, "Filename")) :
                        \/ IsMissing(WideCell(base[k], r))
                        \/ WideCell(base[k], r) \in AreasOfRange(k)

====
